---------------------------- MODULE Spec2Model ----------------------------
(***************************************************************************)
(* Model of the news batch pipeline: transform.strip_html, the input       *)
(* loader and normaliser of pipeline.py, the Processor of processors.py    *)
(* (summary, classification, region detection) and the loop of             *)
(* pipeline.main.                                                          *)
(*                                                                         *)
(* A text is a sequence of characters, each character a one-element        *)
(* string.  A Hangul syllable is one character, written as its             *)
(* romanisation (initial, vowel, final; a syllable that starts with the    *)
(* silent initial is written with a leading "+"), so that substring        *)
(* tests, sentence lengths and prefixes are those of the Python strings.   *)
(***************************************************************************)
EXTENDS Naturals, Integers, Sequences, FiniteSets, TLC

VARIABLES
    pc,          \* position of the operation that is running
    input,       \* the argument of the operation (a text, or the file's text)
    out,         \* what the operation has returned, or the file written
    parts,       \* history: the pieces the input text was put together from
    llm,         \* Processor.llm: whether a client is configured
    raw_items,   \* main: what _load_input returned
    norm_items,  \* main: what _normalize_items returned
    cur,         \* main: summary_lines, primary_cat, subcats of the item in hand
    results,     \* main: the output records so far
    enrich       \* history: per item, how its two enrichment calls ended

mainVars == <<llm, raw_items, norm_items, cur, results, enrich>>

vars == <<pc, input, out, parts, mainVars>>

\* the state of main's variables while a single function is exercised
IdleMain ==
    /\ llm = FALSE
    /\ raw_items = <<>>
    /\ norm_items = <<>>
    /\ cur = <<>>
    /\ results = <<>>
    /\ enrich = <<>>

----------------------------------------------------------------------------
(* Bounds of the model. *)

\* number of pieces an HTML input is concatenated from
MaxHtmlPieces == 3

\* number of pieces the text of a region check is concatenated from
MaxRegionPieces == 2

----------------------------------------------------------------------------
(* Sequences and characters. *)

RECURSIVE Concat(_)
Concat(ss) == IF ss = <<>> THEN <<>> ELSE Head(ss) \o Concat(Tail(ss))

\* all sequences of at most n elements of S
SeqsUpTo(S, n) == UNION {[1..k -> S] : k \in 0..n}

\* the slice s[a:b] of Python, on 1-based positions a..b-1
Slice(s, a, b) == SubSeq(s, a, b - 1)

\* s[i:].startswith(w)
StartsAt(s, i, w) ==
    /\ i + Len(w) - 1 <= Len(s)
    /\ \A k \in 1..Len(w) : s[i + k - 1] = w[k]

\* w in s
Contains(s, w) == \E i \in 1..(Len(s) - Len(w) + 1) : StartsAt(s, i, w)

\* the characters \s matches
Whitespace == {" ", "\t", "\n"}

\* str.lower() on one character
LowerChar(c) ==
    CASE c = "A" -> "a" [] c = "B" -> "b" [] c = "C" -> "c" [] c = "D" -> "d"
      [] c = "E" -> "e" [] c = "F" -> "f" [] c = "G" -> "g" [] c = "H" -> "h"
      [] c = "I" -> "i" [] c = "J" -> "j" [] c = "K" -> "k" [] c = "L" -> "l"
      [] c = "M" -> "m" [] c = "N" -> "n" [] c = "O" -> "o" [] c = "P" -> "p"
      [] c = "Q" -> "q" [] c = "R" -> "r" [] c = "S" -> "s" [] c = "T" -> "t"
      [] c = "U" -> "u" [] c = "V" -> "v" [] c = "W" -> "w" [] c = "X" -> "x"
      [] c = "Y" -> "y" [] c = "Z" -> "z"
      [] OTHER -> c

Lower(s) == [k \in 1..Len(s) |-> LowerChar(s[k])]

\* the first position >= i of s that holds c, or 0
FindChar(s, c, i) ==
    IF \E j \in i..Len(s) : s[j] = c
    THEN CHOOSE j \in i..Len(s) : s[j] = c /\ \A k \in i..(j - 1) : s[k] # c
    ELSE 0

\* the first position >= i where w starts in s, or 0
FindSub(s, w, i) ==
    IF \E j \in i..Len(s) : StartsAt(s, j, w)
    THEN CHOOSE j \in i..Len(s) :
            StartsAt(s, j, w) /\ \A k \in i..(j - 1) : ~StartsAt(s, k, w)
    ELSE 0

\* the first position >= k of s that holds no whitespace (Len(s)+1 if none)
RECURSIVE SkipSpace(_, _)
SkipSpace(s, k) ==
    IF k <= Len(s) /\ s[k] \in Whitespace THEN SkipSpace(s, k + 1) ELSE k

\* str.strip()
RECURSIVE LStrip(_)
LStrip(s) == IF s # <<>> /\ Head(s) \in Whitespace THEN LStrip(Tail(s)) ELSE s
RECURSIVE RStrip(_)
RStrip(s) ==
    IF s # <<>> /\ s[Len(s)] \in Whitespace
    THEN RStrip(SubSeq(s, 1, Len(s) - 1)) ELSE s
Strip(s) == LStrip(RStrip(s))

----------------------------------------------------------------------------
(* transform.strip_html, one operator per substitution.                    *)
(* re.sub replaces the leftmost match, then goes on after it; each         *)
(* operator X(s, i) is the rewriting of s from position i on.              *)

\* where the match of <(script|style).*?>.*?</\1> that starts at i ends, or 0:
\* the tag name, the first ">" after it, the first closing tag after that
ScriptMatchEnd(s, i, name) ==
    IF s[i] = "<" /\ StartsAt(Lower(s), i + 1, name)
    THEN LET q == FindChar(s, ">", i + 1 + Len(name))
             close == <<"<", "/">> \o name \o <<">">>
             c == IF q = 0 THEN 0 ELSE FindSub(Lower(s), close, q + 1)
         IN  IF c = 0 THEN 0 ELSE c + Len(close)
    ELSE 0

RECURSIVE SubScriptStyle(_, _)
SubScriptStyle(s, i) ==
    IF i > Len(s) THEN <<>>
    ELSE LET a == ScriptMatchEnd(s, i, <<"s", "c", "r", "i", "p", "t">>)
             b == ScriptMatchEnd(s, i, <<"s", "t", "y", "l", "e">>)
             e == IF a # 0 THEN a ELSE b
         IN  IF e # 0 THEN <<" ">> \o SubScriptStyle(s, e)
             ELSE <<s[i]>> \o SubScriptStyle(s, i + 1)

\* <br\s*/?> , re.IGNORECASE
BrMatchEnd(s, i) ==
    IF s[i] = "<" /\ StartsAt(Lower(s), i + 1, <<"b", "r">>)
    THEN LET k == SkipSpace(s, i + 3)
         IN  IF k <= Len(s) /\ s[k] = ">" THEN k + 1
             ELSE IF k + 1 <= Len(s) /\ s[k] = "/" /\ s[k + 1] = ">" THEN k + 2
             ELSE 0
    ELSE 0

RECURSIVE SubBr(_, _)
SubBr(s, i) ==
    IF i > Len(s) THEN <<>>
    ELSE IF BrMatchEnd(s, i) # 0 THEN <<"\n">> \o SubBr(s, BrMatchEnd(s, i))
    ELSE <<s[i]>> \o SubBr(s, i + 1)

\* </p\s*> , re.IGNORECASE
PCloseMatchEnd(s, i) ==
    IF s[i] = "<" /\ StartsAt(Lower(s), i + 1, <<"/", "p">>)
    THEN LET k == SkipSpace(s, i + 3)
         IN  IF k <= Len(s) /\ s[k] = ">" THEN k + 1 ELSE 0
    ELSE 0

RECURSIVE SubPClose(_, _)
SubPClose(s, i) ==
    IF i > Len(s) THEN <<>>
    ELSE IF PCloseMatchEnd(s, i) # 0
         THEN <<"\n">> \o SubPClose(s, PCloseMatchEnd(s, i))
    ELSE <<s[i]>> \o SubPClose(s, i + 1)

\* <.*?> , re.DOTALL
RECURSIVE SubTags(_, _)
SubTags(s, i) ==
    IF i > Len(s) THEN <<>>
    ELSE IF s[i] = "<" /\ FindChar(s, ">", i + 1) # 0
         THEN <<" ">> \o SubTags(s, FindChar(s, ">", i + 1) + 1)
    ELSE <<s[i]>> \o SubTags(s, i + 1)

\* html.entities.html5: the names that can be written with the characters
\* of the HTML inputs, and amp
Html5Names ==
    { <<"l", "t">>, <<"l", "t", ";">>, <<"g", "t">>, <<"g", "t", ";">>,
      <<"L", "T">>, <<"L", "T", ";">>,
      <<"a", "m", "p">>, <<"a", "m", "p", ";">>,
      <<"L", "l", ";">>, <<"L", "t", ";">>, <<"g", "E", ";">>,
      <<"g", "E", "l", ";">>, <<"g", "g", ";">>, <<"g", "g", "g", ";">>,
      <<"g", "l", ";">>, <<"g", "l", "E", ";">>, <<"l", "E", ";">>,
      <<"l", "E", "g", ";">>, <<"l", "g", ";">>, <<"l", "g", "E", ";">>,
      <<"l", "l", ";">> }

Html5(name) ==
    CASE name \in {<<"l", "t">>, <<"l", "t", ";">>, <<"L", "T">>, <<"L", "T", ";">>}
           -> <<"<">>
      [] name \in {<<"g", "t">>, <<"g", "t", ";">>} -> <<">">>
      [] name \in {<<"a", "m", "p">>, <<"a", "m", "p", ";">>} -> <<"&">>
      [] name = <<"L", "l", ";">> -> <<"U+22D8">>
      [] name = <<"L", "t", ";">> -> <<"U+226A">>
      [] name = <<"l", "l", ";">> -> <<"U+226A">>
      [] name = <<"g", "E", ";">> -> <<"U+2267">>
      [] name = <<"g", "E", "l", ";">> -> <<"U+2A8C">>
      [] name = <<"g", "g", ";">> -> <<"U+226B">>
      [] name = <<"g", "g", "g", ";">> -> <<"U+22D9">>
      [] name = <<"g", "l", ";">> -> <<"U+2277">>
      [] name = <<"g", "l", "E", ";">> -> <<"U+2A92">>
      [] name = <<"l", "E", ";">> -> <<"U+2266">>
      [] name = <<"l", "E", "g", ";">> -> <<"U+2A8B">>
      [] name = <<"l", "g", ";">> -> <<"U+2276">>
      [] name = <<"l", "g", "E", ";">> -> <<"U+2A91">>

\* html._replace_charref for a named reference: the name itself, else its
\* longest prefix of 2 characters or more that is a name, else unchanged
ReplaceCharref(name) ==
    IF name \in Html5Names THEN Html5(name)
    ELSE LET P == {x \in 2..(Len(name) - 1) : SubSeq(name, 1, x) \in Html5Names}
         IN  IF P = {} THEN <<"&">> \o name
             ELSE LET x == CHOOSE y \in P : \A z \in P : z <= y
                  IN  Html5(SubSeq(name, 1, x)) \o SubSeq(name, x + 1, Len(name))

\* the characters that end the name of a reference: [^\t\n\f <&#;]
CharrefStop == {"\t", "\n", " ", "<", "&", "#", ";"}

\* the first position >= k that ends the name, which has at most 32 characters
RECURSIVE CharrefEnd(_, _, _)
CharrefEnd(s, from, k) ==
    IF k <= Len(s) /\ s[k] \notin CharrefStop /\ k - from < 32
    THEN CharrefEnd(s, from, k + 1) ELSE k

\* html.unescape: &name with an optional ";"
RECURSIVE Unescape(_, _)
Unescape(s, i) ==
    IF i > Len(s) THEN <<>>
    ELSE IF s[i] = "&" /\ i + 1 <= Len(s) /\ s[i + 1] \notin CharrefStop
         THEN LET k == CharrefEnd(s, i + 1, i + 1)
                  e == IF k <= Len(s) /\ s[k] = ";" THEN k + 1 ELSE k
              IN  ReplaceCharref(Slice(s, i + 1, e)) \o Unescape(s, e)
    ELSE <<s[i]>> \o Unescape(s, i + 1)

\* [ \t]+ becomes one space
RECURSIVE SkipBlank(_, _)
SkipBlank(s, k) ==
    IF k <= Len(s) /\ s[k] \in {" ", "\t"} THEN SkipBlank(s, k + 1) ELSE k

RECURSIVE CollapseBlanks(_, _)
CollapseBlanks(s, i) ==
    IF i > Len(s) THEN <<>>
    ELSE IF s[i] \in {" ", "\t"}
         THEN <<" ">> \o CollapseBlanks(s, SkipBlank(s, i))
    ELSE <<s[i]>> \o CollapseBlanks(s, i + 1)

\* \n\s*\n\s*\n+ becomes two newlines: a run of whitespace that starts with
\* a newline and holds three or more is cut down to its last newline
RECURSIVE CollapseNewlines(_, _)
CollapseNewlines(s, i) ==
    IF i > Len(s) THEN <<>>
    ELSE LET e == SkipSpace(s, i)
             nl == {k \in i..(e - 1) : s[k] = "\n"}
         IN  IF s[i] = "\n" /\ Cardinality(nl) >= 3
             THEN <<"\n", "\n">>
                  \o CollapseNewlines(s, (CHOOSE k \in nl : \A m \in nl : m <= k) + 1)
             ELSE <<s[i]>> \o CollapseNewlines(s, i + 1)

\* a mutation of strip_html: whitespace is collapsed before the tags are
\* removed, not after
strip_html_collapse_first(html) ==
    IF html = <<>> THEN <<>>
    ELSE LET t1 == SubScriptStyle(html, 1)
             t2 == SubBr(t1, 1)
             t3 == SubPClose(t2, 1)
             t4 == CollapseBlanks(t3, 1)
             t5 == SubTags(t4, 1)
             t6 == Unescape(t5, 1)
             t7 == CollapseNewlines(t6, 1)
         IN  Strip(t7)

strip_html(html) ==
    IF html = <<>> THEN <<>>
    ELSE LET t1 == SubScriptStyle(html, 1)
             t2 == SubBr(t1, 1)
             t3 == SubPClose(t2, 1)
             t4 == SubTags(t3, 1)
             t5 == Unescape(t4, 1)
             t6 == CollapseBlanks(t5, 1)
             t7 == CollapseNewlines(t6, 1)
         IN  Strip(t7)

\* the pieces the HTML inputs are made of
HtmlPieces ==
    { <<"<", "B", ">">>, <<"<", "/", "P", ">">>, <<"<", "B", "R", " ", "/", ">">>,
      <<"<", "S", "C", "R", "I", "P", "T", ">">>,
      <<"<", "/", "S", "C", "R", "I", "P", "T", ">">>,
      <<"<", "S", "T", "Y", "L", "E", ">">>,
      <<"<", "/", "S", "T", "Y", "L", "E", ">">>,
      <<"&", "l", "t", ";">>, <<"&", "g", "t", ";">>, <<"&">>, <<"l", "t", ";">>,
      <<"X">>, <<"X", " ">>, <<" ">>, <<"\n">>, <<"\t">>, <<"<">>, <<">">> }

HtmlInputs == {Concat(ps) : ps \in SeqsUpTo(HtmlPieces, MaxHtmlPieces)}

----------------------------------------------------------------------------
(* strip_html applied once, then to its own result. *)

InitStrip ==
    /\ pc = "strip"
    /\ input \in HtmlInputs
    /\ out = <<>>
    /\ parts = <<>>
    /\ IdleMain

StripOnce ==
    /\ pc = "strip"
    /\ out' = <<strip_html(input)>>
    /\ pc' = "restrip"
    /\ UNCHANGED <<input, parts, mainVars>>

StripAgain ==
    /\ pc = "restrip"
    /\ out' = Append(out, strip_html(out[1]))
    /\ pc' = "done"
    /\ UNCHANGED <<input, parts, mainVars>>

NextStrip == StripOnce \/ StripAgain

SpecStrip == InitStrip /\ [][NextStrip]_vars

\* C7 (as stated): strip_html(strip_html(x)) = strip_html(x) for every x,
\* entities that unescape to tag-like text included
StripIdempotentAll == pc = "done" => out[2] = out[1]

\* C7 (amended): strip_html(strip_html(x)) = strip_html(x) for every x that
\* holds no "&", that is no entity
StripIdempotentNoEntity ==
    (pc = "done" /\ ~Contains(input, <<"&">>)) => out[2] = out[1]

\* a tag was stripped from an input with no "&", and the result stripped again
StripIdempotentWitness ==
    /\ pc = "done"
    /\ ~Contains(input, <<"&">>)
    /\ Contains(input, <<"<", "B", ">">>)
    /\ Contains(input, <<"X">>)
    /\ out[1] = <<"X">>

----------------------------------------------------------------------------
(* processors.Processor.detect_region. *)

_REGION_KWS ==
    <<
      <<"seo", "+ul">>, <<"bu", "san">>, <<"dae", "gu">>,
      <<"+in", "cheon">>, <<"gwang", "ju">>, <<"dae", "jeon">>,
      <<"+ul", "san">>, <<"se", "jong">>, <<"gyeong", "gi">>,
      <<"gang", "+won">>, <<"chung", "bug">>, <<"chung", "nam">>,
      <<"jeon", "bug">>, <<"jeon", "nam">>, <<"gyeong", "bug">>,
      <<"gyeong", "nam">>, <<"je", "ju">>
    >>

\* the dict in insertion order, each entry <<alias, base>>
_REGION_ALIASES ==
    <<
      <<<<"seo", "+ul", "si">>, <<"seo", "+ul">>>>,
      <<<<"bu", "san", "si">>, <<"bu", "san">>>>,
      <<<<"dae", "gu", "si">>, <<"dae", "gu">>>>,
      <<<<"+in", "cheon", "si">>, <<"+in", "cheon">>>>,
      <<<<"gwang", "ju", "si">>, <<"gwang", "ju">>>>,
      <<<<"dae", "jeon", "si">>, <<"dae", "jeon">>>>,
      <<<<"+ul", "san", "si">>, <<"+ul", "san">>>>,
      <<<<"se", "jong", "si">>, <<"se", "jong">>>>,
      <<<<"gyeong", "gi", "do">>, <<"gyeong", "gi">>>>,
      <<<<"gang", "+won", "do">>, <<"gang", "+won">>>>,
      <<<<"chung", "cheong", "bug", "do">>, <<"chung", "bug">>>>,
      <<<<"chung", "cheong", "nam", "do">>, <<"chung", "nam">>>>,
      <<<<"jeon", "ra", "bug", "do">>, <<"jeon", "bug">>>>,
      <<<<"jeon", "ra", "nam", "do">>, <<"jeon", "nam">>>>,
      <<<<"gyeong", "sang", "bug", "do">>, <<"gyeong", "bug">>>>,
      <<<<"gyeong", "sang", "nam", "do">>, <<"gyeong", "nam">>>>,
      <<<<"je", "ju", "do">>, <<"je", "ju">>>>,
      <<<<"su", "do", "gwon">>, <<"gyeong", "gi">>>>
    >>

\* the sentinel the code returns when nothing matches
Nationwide == <<"jeon", "gug">>

\* for alias, base in _REGION_ALIASES.items(): if alias in blob: return base
RECURSIVE ScanAliases(_, _)
ScanAliases(blob, k) ==
    IF k > Len(_REGION_ALIASES) THEN <<>>
    ELSE IF Contains(blob, _REGION_ALIASES[k][1]) THEN _REGION_ALIASES[k][2]
    ELSE ScanAliases(blob, k + 1)

\* for kw in _REGION_KWS: if kw in blob: return kw
RECURSIVE ScanKws(_, _)
ScanKws(blob, k) ==
    IF k > Len(_REGION_KWS) THEN <<>>
    ELSE IF Contains(blob, _REGION_KWS[k]) THEN _REGION_KWS[k]
    ELSE ScanKws(blob, k + 1)

RegionBlob(text, title) == title \o <<"\n">> \o text

\* a mutation of detect_region: the short names are scanned before the aliases
detect_region_kws_first(text, title) ==
    LET blob == RegionBlob(text, title)
    IN  IF ScanKws(blob, 1) # <<>> THEN ScanKws(blob, 1)
        ELSE IF ScanAliases(blob, 1) # <<>> THEN ScanAliases(blob, 1)
        ELSE Nationwide

detect_region(text, title) ==
    LET blob == RegionBlob(text, title)
    IN  IF ScanAliases(blob, 1) # <<>> THEN ScanAliases(blob, 1)
        ELSE IF ScanKws(blob, 1) # <<>> THEN ScanKws(blob, 1)
        ELSE Nationwide

\* the pieces the texts of the region check are made of: every alias, every
\* short name, parts of aliases, and text that names no region
RegionPieces ==
    {_REGION_ALIASES[k][1] : k \in 1..Len(_REGION_ALIASES)}
        \cup {_REGION_KWS[k] : k \in 1..Len(_REGION_KWS)}
        \cup { <<"chung", "cheong">>, <<"bug", "do">>, <<"si">>, <<" ">>,
               <<"gi", "sa">> }

RegionTitles == { <<>>, <<"bu", "san", "si">>, <<"gyeong", "gi">>, <<"chung", "cheong">> }

RegionInputs ==
    { [title |-> t, text |-> Concat(ps)] :
        t \in RegionTitles, ps \in SeqsUpTo(RegionPieces, MaxRegionPieces) }

InitRegion ==
    /\ pc = "detect_region"
    /\ input \in RegionInputs
    /\ out = <<>>
    /\ parts = <<>>
    /\ IdleMain

DetectRegion ==
    /\ pc = "detect_region"
    /\ out' = <<detect_region(input.text, input.title)>>
    /\ pc' = "done"
    /\ UNCHANGED <<input, parts, mainVars>>

NextRegion == DetectRegion

SpecRegion == InitRegion /\ [][NextRegion]_vars

AliasIn(blob) == {k \in 1..Len(_REGION_ALIASES) : Contains(blob, _REGION_ALIASES[k][1])}
KwIn(blob) == {k \in 1..Len(_REGION_KWS) : Contains(blob, _REGION_KWS[k])}
RegionLabels == {_REGION_KWS[k] : k \in 1..Len(_REGION_KWS)} \cup {Nationwide}

\* C8: the aliases are scanned before the short names and the first match in
\* table order wins: the first alias of the table found in title+body gives
\* its short form whatever short names the text holds; with no alias, the
\* first short name of the table found in it; with neither, the nationwide
\* sentinel; the result is one of the 17 region labels or the sentinel
RegionFirstMatchWins ==
    pc = "done" =>
        LET blob == RegionBlob(input.text, input.title)
            A == AliasIn(blob)
            K == KwIn(blob)
        IN  /\ \A k \in A : (\A j \in A : k <= j) => out[1] = _REGION_ALIASES[k][2]
            /\ A = {} => \A k \in K : (\A j \in K : k <= j) => out[1] = _REGION_KWS[k]
            /\ (A = {} /\ K = {}) => out[1] = Nationwide
            /\ out[1] \in RegionLabels

\* the text holds the short name of one region before the alias of another
\* region that comes later in the table, and the alias decided
RegionWitness ==
    /\ pc = "done"
    /\ input.title = <<>>
    /\ input.text = <<"seo", "+ul", "bu", "san", "si">>
    /\ out[1] = <<"bu", "san">>

----------------------------------------------------------------------------
(* JSON values, as json.loads returns them: a record with its type in ty.  *)
(* A str holds its characters, a dict its items in insertion order, each   *)
(* <<key, value>> with the key a sequence of characters.                   *)

JNull == [ty |-> "null"]
JBool(b) == [ty |-> "bool", b |-> b]
JStr(s) == [ty |-> "str", s |-> s]
JNum(n) == [ty |-> "num", n |-> n]
JList(xs) == [ty |-> "list", xs |-> xs]
JDict(kv) == [ty |-> "dict", kv |-> kv]

\* bool(v)
Truthy(v) ==
    CASE v.ty = "null" -> FALSE
      [] v.ty = "bool" -> v.b
      [] v.ty = "str" -> v.s # <<>>
      [] v.ty = "num" -> v.n # 0
      [] v.ty = "list" -> v.xs # <<>>
      [] v.ty = "dict" -> v.kv # <<>>

\* key in d
HasKey(d, key) == \E k \in 1..Len(d.kv) : d.kv[k][1] = key

\* d.get(key)
DictGet(d, key) ==
    IF HasKey(d, key)
    THEN d.kv[CHOOSE k \in 1..Len(d.kv) : d.kv[k][1] = key][2]
    ELSE JNull

\* whether "for x in v" works, and what it goes through: the members of a
\* list, the characters of a str, the keys of a dict
Iterable(v) == v.ty \in {"list", "str", "dict"}
IterItems(v) ==
    CASE v.ty = "list" -> v.xs
      [] v.ty = "str" -> [k \in 1..Len(v.s) |-> JStr(<<v.s[k]>>)]
      [] v.ty = "dict" -> [k \in 1..Len(v.kv) |-> JStr(v.kv[k][1])]

----------------------------------------------------------------------------
(* Lists of strings. *)

Min(a, b) == IF a <= b THEN a ELSE b

\* list(dict.fromkeys(xs)): the first occurrence of each member, in order
RECURSIVE Dedup(_)
Dedup(xs) ==
    IF xs = <<>> THEN <<>>
    ELSE LET r == Dedup(SubSeq(xs, 1, Len(xs) - 1))
             last == xs[Len(xs)]
         IN  IF \E k \in 1..Len(r) : r[k] = last THEN r ELSE Append(r, last)

\* xs[:n]
Take(xs, n) == SubSeq(xs, 1, Min(n, Len(xs)))

\* while len(xs) < n: xs.append("")
PadTo(xs, n) == xs \o [k \in 1..(n - Len(xs)) |-> <<>>]

\* the members of xs that are not empty once stripped, stripped
RECURSIVE StrippedNonEmpty(_)
StrippedNonEmpty(xs) ==
    IF xs = <<>> THEN <<>>
    ELSE IF Strip(Head(xs)) = <<>> THEN StrippedNonEmpty(Tail(xs))
    ELSE <<Strip(Head(xs))>> \o StrippedNonEmpty(Tail(xs))

\* re.sub(r"\s+", " ", s)
RECURSIVE CollapseSpace(_, _)
CollapseSpace(s, i) ==
    IF i > Len(s) THEN <<>>
    ELSE IF s[i] \in Whitespace THEN <<" ">> \o CollapseSpace(s, SkipSpace(s, i))
    ELSE <<s[i]>> \o CollapseSpace(s, i + 1)

\* s.replace(old, new)
RECURSIVE Replace(_, _, _, _)
Replace(s, old, new, i) ==
    IF i > Len(s) THEN <<>>
    ELSE IF StartsAt(s, i, old) THEN new \o Replace(s, old, new, i + Len(old))
    ELSE <<s[i]>> \o Replace(s, old, new, i + 1)

\* s.endswith(w)
EndsWith(s, w) == Len(w) <= Len(s) /\ SubSeq(s, Len(s) - Len(w) + 1, Len(s)) = w

\* xs.count("")
CountEmpty(xs) == Cardinality({k \in 1..Len(xs) : xs[k] = <<>>})

----------------------------------------------------------------------------
(* processors.py: the tables. *)

MAX_SUMMARY_LINES == 3

_PRIMARY_CATEGORIES ==
    <<
      <<"jeong", "chaeg", "_", "jeong", "bu">>,
      <<"san", "+eob", "_", "gi", "+eob">>,
      <<"+yeon", "gu", "_", "gi", "sul">>,
      <<"gyu", "je", "_", "je", "do">>,
      <<"su", "chul", "_", "geul", "ro", "beol">>,
      <<"tu", "ja", "_", "geum", "+yung">>,
      <<"+in", "sa", "_", "jo", "jig">>, <<"sa", "hoe">>, <<"gi", "ta">>
    >>

\* the dict mapping of _normalize_primary, each entry <<key, label>>
PrimaryMapping ==
    <<
      <<<<"jeong", "chaeg", "/", "jeong", "bu">>, <<"jeong", "chaeg", "_", "jeong", "bu">>>>,
      <<<<"san", "+eob", "/", "gi", "+eob">>, <<"san", "+eob", "_", "gi", "+eob">>>>,
      <<<<"+yeon", "gu", "/", "gi", "sul">>, <<"+yeon", "gu", "_", "gi", "sul">>>>,
      <<<<"gyu", "je", "/", "je", "do">>, <<"gyu", "je", "_", "je", "do">>>>,
      <<<<"su", "chul", "/", "geul", "ro", "beol">>, <<"su", "chul", "_", "geul", "ro", "beol">>>>,
      <<<<"tu", "ja", "/", "geum", "+yung">>, <<"tu", "ja", "_", "geum", "+yung">>>>,
      <<<<"+in", "sa", "/", "jo", "jig">>, <<"+in", "sa", "_", "jo", "jig">>>>
    >>

_SUBCATEGORY_HINTS ==
    <<
      <<"jeong", "chaeg">>, <<"je", "do", "gae", "seon">>,
      <<"gyu", "je", "+wan", "hwa">>, <<"geum", "+yung", "ji", "+won">>,
      <<"se", "je">>, <<"tu", "ja", "+yu", "chi">>, <<"su", "chul">>,
      <<"mu", "+yeog">>, <<"geul", "ro", "beol", "jin", "chul">>,
      <<"go", "+yong">>, <<"chae", "+yong">>, <<"no", "sa">>,
      <<"+an", "jeon", "gwan", "ri">>, <<"jae", "nan", "dae", "+eung">>,
      <<"hwan", "gyeong">>, <<"+e", "neo", "ji">>,
      <<"di", "ji", "teol", "jeon", "hwan">>, <<"R", "&", "D">>,
      <<"A", "I">>, <<"hyeog", "sin">>, <<"ji", "+yeog">>,
      <<"ji", "ja", "che">>, <<"haeng", "sa">>, <<"mun", "hwa">>,
      <<"so", "bi", "ja", "bo", "ho">>, <<"bo", "heom">>,
      <<"dae", "chul">>, <<"no", "dong", "beob">>,
      <<"geun", "ro", "si", "gan">>, <<"bog", "ji">>, <<"gyo", "+yug">>
    >>

_STOPWORDS ==
    {
      <<"ga">>, <<"ga", "jang">>, <<"gwa">>, <<"gwan", "ryeon">>,
      <<"gwang", "ju", "si">>, <<"geu", "ri", "go">>, <<"neun">>,
      <<"dae", "gu", "si">>, <<"dae", "jeon", "si">>, <<"dae", "han">>,
      <<"dae", "hae">>, <<"deo">>, <<"deung">>, <<"deung", "+ui">>,
      <<"tto">>, <<"tto", "neun">>, <<"reul">>, <<"mich">>,
      <<"bu", "san", "si">>, <<"seo", "+ul", "si">>,
      <<"se", "jong", "si">>, <<"+eobs", "neun">>, <<"+e", "seo">>,
      <<"+wa">>, <<"+ul", "san", "si">>, <<"+eu", "ro">>, <<"+eun">>,
      <<"+eul">>, <<"+i">>, <<"+i", "da">>, <<"+i", "beon">>,
      <<"+in", "cheon", "si">>, <<"+iss", "neun">>, <<"ji", "nan">>,
      <<"choe", "dae">>, <<"choe", "so">>, <<"tong", "hae">>,
      <<"han", "da">>, <<"han", "da", "neun">>, <<"hab", "ni", "da">>,
      <<"haess", "da">>
    }

\* pref_map of _suggest_subs_from_text, each entry <<label, keywords>>
pref_map ==
    <<
      <<<<"sa", "hoe">>,
        <<
            <<"haeng", "sa">>, <<"chug", "je">>, <<"mun", "hwa">>,
            <<"bog", "ji">>, <<"gyo", "+yug">>, <<"si", "min">>,
            <<"cheong", "nyeon">>, <<"no", "+in">> >>>>,
      <<<<"tu", "ja", "_", "geum", "+yung">>,
        <<
            <<"geum", "+yung">>, <<"bo", "heom">>, <<"dae", "chul">>,
            <<"bo", "jo", "geum">>, <<"se", "je">>, <<"ji", "+won">> >>>>,
      <<<<"san", "+eob", "_", "gi", "+eob">>,
        <<
            <<"gi", "+eob">>, <<"san", "+eob">>, <<"saeng", "san">>,
            <<"gong", "jang">>, <<"+yu", "tong">>, <<"+an", "jeon">> >>>>,
      <<<<"+yeon", "gu", "_", "gi", "sul">>,
        <<
            <<"R", "&", "D">>, <<"A", "I">>, <<"gi", "sul">>,
            <<"hyeog", "sin">>, <<"+yeon", "gu">>, <<"gae", "bal">> >>>>,
      <<<<"gyu", "je", "_", "je", "do">>,
        <<
            <<"gyu", "je", "+wan", "hwa">>, <<"je", "do", "gae", "seon">>,
            <<"gae", "jeong">>, <<"beob", "+an">>, <<"si", "haeng", "ryeong">> >>>>,
      <<<<"su", "chul", "_", "geul", "ro", "beol">>,
        <<
            <<"su", "chul">>, <<"mu", "+yeog">>, <<"hae", "+oe">>,
            <<"geul", "ro", "beol">>, <<"F", "T", "A">> >>>>,
      <<<<"+in", "sa", "_", "jo", "jig">>,
        <<
            <<"chae", "+yong">>, <<"go", "+yong">>, <<"+im", "geum">>,
            <<"no", "sa">>, <<"geun", "ro", "si", "gan">> >>>>,
      <<<<"jeong", "chaeg", "_", "jeong", "bu">>,
        <<
            <<"jeong", "chaeg">>, <<"jeong", "bu">>, <<"bu", "cheo">>,
            <<"+wi", "+won", "hoe">> >>>>
    >>

\* the rules of _debias_primary in order: the terms, the label returned, and
\* whether the rule also asks for a region other than the nationwide one
DebiasRules ==
    <<
      [terms |-> <<
            <<"bo", "heom">>, <<"dae", "chul">>, <<"+yeon", "che">>,
            <<"geum", "+yung">>, <<"peon", "deu">>, <<"jeung", "gwon">>,
            <<"bo", "jo", "geum">>, <<"se", "je">> >>,
       label |-> <<"tu", "ja", "_", "geum", "+yung">>, region |-> FALSE],
      [terms |-> <<
            <<"su", "chul">>, <<"mu", "+yeog">>, <<"hae", "+oe">>,
            <<"geul", "ro", "beol">>, <<"f", "t", "a">> >>,
       label |-> <<"su", "chul", "_", "geul", "ro", "beol">>, region |-> FALSE],
      [terms |-> <<
            <<"r", "&", "d">>, <<"+yeon", "gu">>, <<"gi", "sul">>,
            <<"a", "i">>, <<"+in", "gong", "ji", "neung">>,
            <<"hyeog", "sin">>, <<"di", "ji", "teol", "jeon", "hwan">> >>,
       label |-> <<"+yeon", "gu", "_", "gi", "sul">>, region |-> FALSE],
      [terms |-> <<
            <<"chae", "+yong">>, <<"go", "+yong">>, <<"+im", "geum">>,
            <<"no", "sa">>, <<"geun", "ro", "si", "gan">> >>,
       label |-> <<"+in", "sa", "_", "jo", "jig">>, region |-> FALSE],
      [terms |-> <<
            <<"san", "+eob", "jae", "hae">>, <<"san", "jae">>,
            <<"jung", "dae", "jae", "hae">>, <<"san", "+eob", "+an", "jeon">> >>,
       label |-> <<"san", "+eob", "_", "gi", "+eob">>, region |-> FALSE],
      [terms |-> <<
            <<"haeng", "sa">>, <<"chug", "je">>, <<"gi", "nyeom", "sig">>,
            <<"pe", "seu", "ti", "beol">>, <<"gong", "+yeon">>,
            <<"jeon", "si">> >>,
       label |-> <<"sa", "hoe">>, region |-> TRUE],
      [terms |-> <<
            <<"gyu", "je", "+wan", "hwa">>,
            <<"gyu", "je", " ", "+wan", "hwa">>,
            <<"je", "do", "gae", "seon">>,
            <<"je", "do", " ", "gae", "seon">>, <<"gae", "jeong">>,
            <<"si", "haeng", "ryeong">>, <<"si", "haeng", "gyu", "chig">> >>,
       label |-> <<"gyu", "je", "_", "je", "do">>, region |-> FALSE]
    >>

\* the scoring rules of _fallback_classify in order: the terms, the label
\* bumped and by how much, the subcategories added, and whether the rule also
\* asks for a region other than the nationwide one
FallbackRules ==
    <<
      [terms |-> <<
            <<"dae", "chul">>, <<"+eun", "haeng">>, <<"bo", "heom">>,
            <<"ka", "deu">>, <<"sin", "+yong">>, <<"geum", "gam", "+won">>,
            <<"chae", "mu", "jo", "jeong">>, <<"+yeon", "che">>,
            <<"bo", "heom", "ryo">>, <<"geum", "+yung", "ji", "+won">>,
            <<"bo", "jo", "geum">>, <<"se", "je">> >>,
       cat |-> <<"tu", "ja", "_", "geum", "+yung">>, n |-> 5, subs |-> <<<<"geum", "+yung", "ji", "+won">>, <<"se", "je">>>>, region |-> FALSE],
      [terms |-> <<
            <<"san", "+eob", "jae", "hae">>, <<"san", "jae">>,
            <<"jung", "dae", "jae", "hae">>, <<"no", "dong", "+an", "jeon">>,
            <<"+an", "jeon", "sa", "go">>, <<"san", "+eob", "+an", "jeon">> >>,
       cat |-> <<"san", "+eob", "_", "gi", "+eob">>, n |-> 5, subs |-> <<<<"+an", "jeon", "gwan", "ri">>>>, region |-> FALSE],
      [terms |-> <<
            <<"su", "chul">>, <<"mu", "+yeog">>, <<"hae", "+oe">>,
            <<"geul", "ro", "beol">>, <<"f", "t", "a">> >>,
       cat |-> <<"su", "chul", "_", "geul", "ro", "beol">>, n |-> 5, subs |-> <<<<"su", "chul">>>>, region |-> FALSE],
      [terms |-> <<
            <<"r", "&", "d">>, <<"+yeon", "gu">>, <<"gi", "sul">>,
            <<"a", "i">>, <<"+in", "gong", "ji", "neung">>,
            <<"hyeog", "sin">>, <<"di", "ji", "teol", "jeon", "hwan">> >>,
       cat |-> <<"+yeon", "gu", "_", "gi", "sul">>, n |-> 5, subs |-> <<<<"R", "&", "D">>, <<"A", "I">>>>, region |-> FALSE],
      [terms |-> <<
            <<"chae", "+yong">>, <<"go", "+yong">>, <<"+im", "geum">>,
            <<"no", "sa">>, <<"geun", "ro", "si", "gan">> >>,
       cat |-> <<"+in", "sa", "_", "jo", "jig">>, n |-> 4, subs |-> <<<<"chae", "+yong">>>>, region |-> FALSE],
      [terms |-> <<
            <<"haeng", "sa">>, <<"chug", "je">>, <<"gi", "nyeom", "sig">>,
            <<"gyeong", "chug", "sig">>, <<"cho", "dae", "hab", "ni", "da">>,
            <<"pe", "seu", "ti", "beol">>,
            <<"si", "min", " ", "cham", "+yeo">>, <<"gwang", "bog">>,
            <<"mun", "hwa">>, <<"gong", "+yeon">>, <<"jeon", "si">> >>,
       cat |-> <<"sa", "hoe">>, n |-> 4, subs |-> <<<<"haeng", "sa">>, <<"mun", "hwa">>>>, region |-> FALSE],
      [terms |-> <<
            <<"nong", "chug", "san", "mul">>,
            <<"jeon", "tong", "si", "jang">>,
            <<"+on", "nu", "ri", "sang", "pum", "gwon">>,
            <<"ha", "na", "ro", "ma", "teu">>, <<"hal", "+in">>,
            <<"ku", "pon">>, <<"so", "bi", "jin", "jag">>, <<"hwan", "geub">> >>,
       cat |-> <<"sa", "hoe">>, n |-> 3, subs |-> <<<<"ji", "+yeog", "gyeong", "je">>>>, region |-> FALSE],
      [terms |-> <<
            <<"gyu", "je", " ", "+wan", "hwa">>,
            <<"gyu", "je", "+wan", "hwa">>,
            <<"je", "do", " ", "gae", "seon">>,
            <<"je", "do", "gae", "seon">>, <<"gae", "jeong">>,
            <<"si", "haeng", "ryeong">>, <<"si", "haeng", "gyu", "chig">>,
            <<"beob", "+an">>, <<"jo", "rye">> >>,
       cat |-> <<"gyu", "je", "_", "je", "do">>, n |-> 3, subs |-> <<
            <<"je", "do", "gae", "seon">>, <<"gyu", "je", "+wan", "hwa">> >>, region |-> FALSE],
      [terms |-> <<
            <<"dae", "tong", "ryeong">>, <<"gug", "mu", "hoe", "+ui">>,
            <<"gug", "jeong">>, <<"gug", "jeong", "+un", "+yeong">>,
            <<"cheong", "+wa", "dae">>, <<"gug", "mu", "+wi", "+won">> >>,
       cat |-> <<"jeong", "chaeg", "_", "jeong", "bu">>, n |-> 3, subs |-> <<<<"jeong", "chaeg">>>>, region |-> FALSE],
      [terms |-> <<
            <<"jeong", "bu">>, <<"bu", "cheo">>, <<"+wi", "+won", "hoe">>,
            <<"jeong", "chaeg">>, <<"jeong", "bu", "hab", "dong">>,
            <<"gug", "jeong", "beu", "ri", "ping">> >>,
       cat |-> <<"jeong", "chaeg", "_", "jeong", "bu">>, n |-> 1, subs |-> <<<<"jeong", "chaeg">>>>, region |-> FALSE],
      [terms |-> <<
            <<"haeng", "sa">>, <<"chug", "je">>, <<"gi", "nyeom", "sig">>,
            <<"pe", "seu", "ti", "beol">> >>,
       cat |-> <<"sa", "hoe">>, n |-> 2, subs |-> <<>>, region |-> TRUE]
    >>
----------------------------------------------------------------------------
(* processors.py: the helpers of the classification. *)

CategorySet == {_PRIMARY_CATEGORIES[k] : k \in 1..Len(_PRIMARY_CATEGORIES)}
Policy == _PRIMARY_CATEGORIES[1]
Society == _PRIMARY_CATEGORIES[8]
Other == _PRIMARY_CATEGORIES[9]

\* processors._pad4
processors_pad4(xs) == PadTo(Take(Dedup(StrippedNonEmpty(xs)), 4), 4)

\* a mutation of _normalize_primary: a label that is not known is kept
_normalize_primary_keeps_unknown(cat) ==
    LET c == IF Truthy(cat) THEN Strip(cat.s) ELSE <<>>
    IN  IF \E k \in 1..Len(PrimaryMapping) : PrimaryMapping[k][1] = c
        THEN PrimaryMapping[CHOOSE k \in 1..Len(PrimaryMapping) :
                                PrimaryMapping[k][1] = c][2]
        ELSE c

\* _normalize_primary(cat) for cat a JSON value that is falsy or a str (any
\* other value has no strip() and raises, see PrimaryRaises)
_normalize_primary(cat) ==
    LET c == IF Truthy(cat) THEN Strip(cat.s) ELSE <<>>
    IN  IF c \in CategorySet THEN c
        ELSE IF \E k \in 1..Len(PrimaryMapping) : PrimaryMapping[k][1] = c
        THEN PrimaryMapping[CHOOSE k \in 1..Len(PrimaryMapping) :
                                PrimaryMapping[k][1] = c][2]
        ELSE Other

\* (cat or "").strip() raises AttributeError
PrimaryRaises(cat) == Truthy(cat) /\ cat.ty # "str"

\* one member of subs, cleaned as in the loop of _normalize_subs
CleanSub(s) ==
    LET s1 == Strip(CollapseSpace(s, 1))
        s2 == Replace(s1, <<"R", " ", "&", " ", "D">>, <<"R", "&", "D">>, 1)
        s3 == Replace(s2, <<"r", "&", "d">>, <<"R", "&", "D">>, 1)
    IN  IF Lower(s3) \in {<<"a", "i">>, <<"+in", "gong", "ji", "neung">>}
        THEN <<"A", "I">> ELSE s3

RECURSIVE CleanSubs(_)
CleanSubs(subs) ==
    IF subs = <<>> THEN <<>>
    ELSE IF Strip(CollapseSpace(Head(subs), 1)) = <<>> THEN CleanSubs(Tail(subs))
    ELSE <<CleanSub(Head(subs))>> \o CleanSubs(Tail(subs))

_normalize_subs(subs) == processors_pad4(CleanSubs(subs))

\* the characters of the model that [0-9A-Za-z가-힣] does not match
NonWordChars ==
    Whitespace \cup
    { ".", ",", "!", "?", "%", "&", ";", ":", "<", ">", "/", "_", "-", "(", ")",
      "\"", "#", "U+2026",
      "U+22D8", "U+226A", "U+2267", "U+2A8C", "U+226B", "U+22D9", "U+2277",
      "U+2A92", "U+2266", "U+2A8B", "U+2276", "U+2A91" }

\* re.split(r"[^0-9A-Za-z가-힣]+", text), the empty tokens left out
RECURSIVE WordEnd(_, _)
WordEnd(s, k) ==
    IF k <= Len(s) /\ s[k] \notin NonWordChars THEN WordEnd(s, k + 1) ELSE k

RECURSIVE Words(_, _)
Words(s, i) ==
    IF i > Len(s) THEN <<>>
    ELSE IF s[i] \in NonWordChars THEN Words(s, i + 1)
    ELSE <<Slice(s, i, WordEnd(s, i))>> \o Words(s, WordEnd(s, i))

RECURSIVE KeepKeywords(_)
KeepKeywords(ts) ==
    IF ts = <<>> THEN <<>>
    ELSE IF Len(Head(ts)) >= 2 /\ Head(ts) \notin _STOPWORDS
         THEN <<Head(ts)>> \o KeepKeywords(Tail(ts))
    ELSE KeepKeywords(Tail(ts))

\* Counter(tokens).most_common(topk): by count, the most frequent first,
\* tokens of equal count in the order of their first occurrence
_auto_keywords(text, topk) ==
    LET tokens == KeepKeywords(Words(text, 1))
        ds == Dedup(tokens)
        cnt(k) == Cardinality({j \in 1..Len(tokens) : tokens[j] = ds[k]})
        rank(k) == Cardinality({j \in 1..Len(ds) :
                        cnt(j) > cnt(k) \/ (cnt(j) = cnt(k) /\ j < k)}) + 1
        sorted == [p \in 1..Len(ds) |-> ds[CHOOSE k \in 1..Len(ds) : rank(k) = p]]
    IN  Take(sorted, topk)

\* pref_map.get(primary, [])
PrefOf(primary) ==
    IF \E k \in 1..Len(pref_map) : pref_map[k][1] = primary
    THEN pref_map[CHOOSE k \in 1..Len(pref_map) : pref_map[k][1] = primary][2]
    ELSE <<>>

\* the loop of _suggest_subs_from_text: candidates not yet taken, up to 6
RECURSIVE TakeCandidates(_, _)
TakeCandidates(cands, acc) ==
    IF cands = <<>> \/ Len(acc) >= 6 THEN acc
    ELSE LET k == Strip(Head(cands))
         IN  IF k = <<>> \/ (\E j \in 1..Len(acc) : acc[j] = k)
             THEN TakeCandidates(Tail(cands), acc)
             ELSE TakeCandidates(Tail(cands), Append(acc, k))

_suggest_subs_from_text(text, title, region, primary) ==
    LET base == title \o <<" ">> \o text
        keys == _auto_keywords(base, 12)
        prefer == PrefOf(primary) \o
                  (IF region # <<>> /\ region # Nationwide
                   THEN <<region, <<"ji", "ja", "che">>, <<"ji", "+yeog">>>>
                   ELSE <<>>)
    IN  TakeCandidates(prefer \o keys \o _SUBCATEGORY_HINTS, <<>>)

\* any(term in t for term in terms)
has_any(t, terms) == \E k \in 1..Len(terms) : Contains(t, terms[k])

\* whether a rule of DebiasRules or FallbackRules applies
Fires(rule, t, region) ==
    /\ rule.region => region # Nationwide
    /\ has_any(t, rule.terms)

RECURSIVE FirstDebias(_, _, _, _)
FirstDebias(primary, t, region, k) ==
    IF k > Len(DebiasRules) THEN primary
    ELSE IF Fires(DebiasRules[k], t, region) THEN DebiasRules[k].label
    ELSE FirstDebias(primary, t, region, k + 1)

_debias_primary(primary, text, title, region) ==
    FirstDebias(primary, Lower(title \o <<" ">> \o text), region, 1)

\* scores[cat] after the rules 1..k have been applied
RECURSIVE ScoreUpTo(_, _, _, _)
ScoreUpTo(cat, t, region, k) ==
    IF k = 0 THEN 0
    ELSE ScoreUpTo(cat, t, region, k - 1)
         + (IF FallbackRules[k].cat = cat /\ Fires(FallbackRules[k], t, region)
            THEN FallbackRules[k].n ELSE 0)

\* subs after the rules 1..k have been applied
RECURSIVE SubsUpTo(_, _, _)
SubsUpTo(t, region, k) ==
    IF k = 0 THEN <<>>
    ELSE SubsUpTo(t, region, k - 1)
         \o (IF Fires(FallbackRules[k], t, region) THEN FallbackRules[k].subs ELSE <<>>)

\* the scores of _fallback_classify, by position in _PRIMARY_CATEGORIES
Scores(text, title, region) ==
    LET t == Lower(title \o <<" ">> \o text)
    IN  [c \in 1..Len(_PRIMARY_CATEGORIES) |->
            ScoreUpTo(_PRIMARY_CATEGORIES[c], t, region, Len(FallbackRules))]

MaxOf(S) == CHOOSE m \in S : \A x \in S : x <= m

\* the labels that hold the maximum score, in the order of the dict
Tied(scores) ==
    LET m == MaxOf({scores[c] : c \in DOMAIN scores})
        RECURSIVE From(_)
        From(c) == IF c > Len(scores) THEN <<>>
                   ELSE IF scores[c] = m
                        THEN <<_PRIMARY_CATEGORIES[c]>> \o From(c + 1)
                   ELSE From(c + 1)
    IN  From(1)

RECURSIVE Without(_, _)
Without(xs, x) ==
    IF xs = <<>> THEN <<>>
    ELSE IF Head(xs) = x THEN Without(Tail(xs), x)
    ELSE <<Head(xs)>> \o Without(Tail(xs), x)

\* a mutation of the tie-break: the first of the tied labels is taken
TieBreak_first(scores) ==
    IF MaxOf({scores[c] : c \in DOMAIN scores}) = 0 THEN Other
    ELSE Tied(scores)[1]

\* the tie-break of _fallback_classify
TieBreak(scores) ==
    IF MaxOf({scores[c] : c \in DOMAIN scores}) = 0 THEN Other
    ELSE LET tied == Tied(scores)
             non_policy == Without(tied, Policy)
         IN  IF Len(tied) = 1 THEN tied[1]
             ELSE IF non_policy # <<>> THEN non_policy[1] ELSE tied[1]

\* a mutation of the top-up: a short list is returned as it is
TopUp_skipped(subs, text, title, region, primary) == subs

\* a subcategory list that is short gets the suggestions appended
TopUp(subs, text, title, region, primary) ==
    IF CountEmpty(subs) > 0
    THEN _normalize_subs(subs \o _suggest_subs_from_text(text, title, region, primary))
    ELSE subs

_fallback_classify(text, title, region) ==
    LET t == Lower(title \o <<" ">> \o text)
        primary == TieBreak(Scores(text, title, region))
        subs == _normalize_subs(SubsUpTo(t, region, Len(FallbackRules)))
    IN  [primary |-> primary,
         subs |-> TopUp(subs, text, title, region, primary)]

----------------------------------------------------------------------------
(* processors.py: the summary. *)

Digits == {"0", "1", "2", "3", "4", "5", "6", "7", "8", "9"}

\* s.rstrip(chars)
RECURSIVE RStripChars(_, _)
RStripChars(s, chars) ==
    IF s # <<>> /\ s[Len(s)] \in chars
    THEN RStripChars(SubSeq(s, 1, Len(s) - 1), chars) ELSE s

_close_sentence(s0) ==
    LET s == CollapseSpace(Strip(s0), 1)
    IN  IF Strip(s0) = <<>> THEN <<>>
        ELSE IF \/ s[Len(s)] \in {".", "!", "?"}
                \/ \E w \in {<<"da">>, <<"+yo">>, <<"hab", "ni", "da">>, <<"+i", "da">>} :
                       EndsWith(s, w)
        THEN s
        ELSE RStripChars(s, {"U+2026", ",", ":", ";"}) \o <<"da">>

\* re.split(r"(?<=[\.!?]|다)\s+", blob) on a blob whose whitespace is single
\* spaces: the pieces between the spaces that follow ".", "!", "?" or "다"
RECURSIVE SplitSentences(_, _, _)
SplitSentences(b, i, start) ==
    IF i > Len(b) THEN <<Slice(b, start, Len(b) + 1)>>
    ELSE IF b[i] = " " /\ i > 1 /\ b[i - 1] \in {".", "!", "?", "da"}
         THEN <<Slice(b, start, i)>> \o SplitSentences(b, i + 1, i + 1)
    ELSE SplitSentences(b, i + 1, start)

RECURSIVE LongerThan4(_)
LongerThan4(ss) ==
    IF ss = <<>> THEN <<>>
    ELSE IF Len(Strip(Head(ss))) > 4 THEN <<Strip(Head(ss))>> \o LongerThan4(Tail(ss))
    ELSE LongerThan4(Tail(ss))

_split_sentences_ko(text) ==
    IF Strip(text) = <<>> THEN <<>>
    ELSE LongerThan4(SplitSentences(CollapseSpace(Strip(text), 1), 1, 1))

InstitutionTerms ==
    <<
      <<"bu">>, <<"cheong">>, <<"cheo">>, <<"+won">>, <<"gong", "sa">>,
      <<"+wi", "+won", "hoe">>, <<"jeong", "bu">>, <<"bu", "cheo">>
    >>

ActionTerms ==
    <<
      <<"ji", "+won">>, <<"hwag", "dae">>, <<"gae", "seon">>,
      <<"do", "+ib">>, <<"bal", "pyo">>, <<"si", "haeng">>,
      <<"hwag", "jeong">>, <<"tu", "ja">>, <<"su", "chul">>,
      <<"+an", "jeon">>, <<"chul", "si">>
    >>

\* \d{4}년|\d+월|\d+일|\d+%
HasDate(s) ==
    \E i \in 2..Len(s) :
        \/ s[i] \in {"+wol", "+il", "%"} /\ s[i - 1] \in Digits
        \/ s[i] = "nyeon" /\ i > 4 /\ \A k \in (i - 4)..(i - 1) : s[k] \in Digits

\* score(s) of _fallback_summary
SentenceScore(s) ==
    (IF HasDate(s) THEN 3 ELSE 0)
    + (IF \E i \in 1..Len(s) : s[i] \in Digits THEN 2 ELSE 0)
    + (IF has_any(s, InstitutionTerms) THEN 2 ELSE 0)
    + (IF has_any(s, ActionTerms) THEN 2 ELSE 0)
    + (IF Len(s) >= 20 THEN 1 ELSE 0)

\* sorted(sents, key=score, reverse=True): the sort is stable
SortByScore(sents) ==
    LET rank(k) == Cardinality({j \in 1..Len(sents) :
                        \/ SentenceScore(sents[j]) > SentenceScore(sents[k])
                        \/ (SentenceScore(sents[j]) = SentenceScore(sents[k]) /\ j < k)}) + 1
    IN  [p \in 1..Len(sents) |-> sents[CHOOSE k \in 1..Len(sents) : rank(k) = p]]

CloseAll(ps) == [k \in 1..Len(ps) |-> _close_sentence(ps[k])]

_fallback_summary(text, title) ==
    LET picked == Take(SortByScore(_split_sentences_ko(text)), MAX_SUMMARY_LINES)
        t == Strip(title)
        withTitle == IF t # <<>> /\ (picked = <<>> \/ ~Contains(picked[1], t))
                     THEN <<t>> \o picked ELSE picked
        closed == CloseAll(Take(withTitle, MAX_SUMMARY_LINES))
    IN  Take(PadTo(closed, MAX_SUMMARY_LINES), MAX_SUMMARY_LINES)

----------------------------------------------------------------------------
(* processors.Processor: summarize and classify, with the outcome of the   *)
(* json_chat call they make.  An outcome is [raised |-> TRUE] when         *)
(* json_chat raises after its attempts, else [raised |-> FALSE, js |-> v]  *)
(* with v the JSON value it returns.                                       *)

Raised == [raised |-> TRUE, js |-> JNull]
Returned(v) == [raised |-> FALSE, js |-> v]

Key_summary_lines == <<"s", "u", "m", "m", "a", "r", "y", "_", "l", "i", "n", "e", "s">>
Key_primary == <<"p", "r", "i", "m", "a", "r", "y">>
Key_subcategories ==
    <<"s", "u", "b", "c", "a", "t", "e", "g", "o", "r", "i", "e", "s">>

\* js = self.client.json_chat(...) or {}
OrEmptyDict(v) == IF Truthy(v) THEN v ELSE JDict(<<>>)

\* js.get(key) or []
GetOrEmptyList(js, key) ==
    IF Truthy(DictGet(js, key)) THEN DictGet(js, key) ELSE JList(<<>>)

\* [ln for ln in lines if isinstance(ln, str)], then those with ln.strip(),
\* each closed
RECURSIVE UsableLines(_)
UsableLines(xs) ==
    IF xs = <<>> THEN <<>>
    ELSE IF Head(xs).ty = "str" /\ Strip(Head(xs).s) # <<>>
         THEN <<_close_sentence(Head(xs).s)>> \o UsableLines(Tail(xs))
    ELSE UsableLines(Tail(xs))

\* whether the try block of summarize raises
SummarizeRaises(o) ==
    \/ o.raised
    \/ OrEmptyDict(o.js).ty # "dict"
    \/ ~Iterable(GetOrEmptyList(OrEmptyDict(o.js), Key_summary_lines))

\* whether summarize calls json_chat
SummarizeCalls(text, client) == client /\ Len(Strip(text)) >= 1

\* a mutation of summarize: the lines of the reply are returned unpadded
summarize_no_padding(text0, title, client, o) ==
    LET text == Strip(text0)
        lines == UsableLines(IterItems(
                    GetOrEmptyList(OrEmptyDict(o.js), Key_summary_lines)))
    IN  IF SummarizeCalls(text0, client) /\ ~SummarizeRaises(o) /\ Len(lines) >= 1
        THEN Take(lines, MAX_SUMMARY_LINES)
        ELSE _fallback_summary(text, title)

\* a mutation of summarize: a failed enrichment gives an empty list
summarize_no_fallback(text0, title, client, o) ==
    LET text == Strip(text0)
        lines == UsableLines(IterItems(
                    GetOrEmptyList(OrEmptyDict(o.js), Key_summary_lines)))
    IN  IF SummarizeCalls(text0, client) /\ ~SummarizeRaises(o) /\ Len(lines) >= 1
        THEN Take(lines \o <<<<>>, <<>>, <<>>>>, MAX_SUMMARY_LINES)
        ELSE IF SummarizeCalls(text0, client) THEN <<>>
        ELSE _fallback_summary(text, title)

summarize(text0, title, client, o) ==
    LET text == Strip(text0)
        lines == UsableLines(IterItems(
                    GetOrEmptyList(OrEmptyDict(o.js), Key_summary_lines)))
    IN  IF SummarizeCalls(text0, client) /\ ~SummarizeRaises(o) /\ Len(lines) >= 1
        THEN Take(lines \o <<<<>>, <<>>, <<>>>>, MAX_SUMMARY_LINES)
        ELSE _fallback_summary(text, title)

\* whether classify calls json_chat
ClassifyCalls(text, title, client) ==
    client /\ Len(Strip(title \o <<"\n">> \o text)) >= 1

\* whether the try block of classify raises
ClassifyRaises(o) ==
    \/ o.raised
    \/ OrEmptyDict(o.js).ty # "dict"
    \/ PrimaryRaises(DictGet(OrEmptyDict(o.js), Key_primary))
    \/ LET subs == GetOrEmptyList(OrEmptyDict(o.js), Key_subcategories)
       IN  \/ ~Iterable(subs)
           \/ \E k \in 1..Len(IterItems(subs)) : IterItems(subs)[k].ty # "str"

Strings(xs) == [k \in 1..Len(xs) |-> xs[k].s]

\* the try block of classify, when it does not raise
classify_llm(text, title, region, js) ==
    LET primary0 == _normalize_primary(DictGet(js, Key_primary))
        subs0 == _normalize_subs(Strings(IterItems(GetOrEmptyList(js, Key_subcategories))))
        primary == _debias_primary(primary0, text, title, region)
    IN  [primary |-> primary,
         subs |-> TopUp(subs0, text, title, region, primary)]

classify(text, title, client, o) ==
    LET region == detect_region(text, title)
    IN  IF ClassifyCalls(text, title, client) /\ ~ClassifyRaises(o)
        THEN classify_llm(text, title, region, OrEmptyDict(o.js))
        ELSE _fallback_classify(text, title, region)

----------------------------------------------------------------------------
(* json.loads and JSONDecoder.raw_decode, on a text given as a sequence of  *)
(* characters.  A parse gives [ok, val, j]: whether a value was decoded,    *)
(* the value, and the index after it.  Numbers are integers; a \u escape    *)
(* and the NaN and Infinity literals are outside the texts considered.      *)

JsonWs == {" ", "\t", "\n"}

RECURSIVE SkipWs(_, _)
SkipWs(t, i) == IF i <= Len(t) /\ t[i] \in JsonWs THEN SkipWs(t, i + 1) ELSE i

NoParse(i) == [ok |-> FALSE, val |-> JNull, j |-> i]
Parsed(v, j) == [ok |-> TRUE, val |-> v, j |-> j]

Escapes == {"\"", "\\", "/", "b", "f", "n", "r", "t"}
Unescaped(c) ==
    CASE c = "n" -> "\n"
      [] c = "t" -> "\t"
      [] c = "b" -> "U+0008"
      [] c = "f" -> "U+000C"
      [] c = "r" -> "U+000D"
      [] OTHER -> c

\* the string whose opening quote is before index i
RECURSIVE ParseString(_, _, _)
ParseString(t, i, acc) ==
    IF i > Len(t) THEN NoParse(i)
    ELSE IF t[i] = "\"" THEN Parsed(JStr(acc), i + 1)
    ELSE IF t[i] = "\\"
         THEN IF i + 1 <= Len(t) /\ t[i + 1] \in Escapes
              THEN ParseString(t, i + 2, Append(acc, Unescaped(t[i + 1])))
              ELSE NoParse(i)
    ELSE IF t[i] \in {"\n", "\t"} THEN NoParse(i)
    ELSE ParseString(t, i + 1, Append(acc, t[i]))

DigitValue(c) ==
    CASE c = "0" -> 0 [] c = "1" -> 1 [] c = "2" -> 2 [] c = "3" -> 3
      [] c = "4" -> 4 [] c = "5" -> 5 [] c = "6" -> 6 [] c = "7" -> 7
      [] c = "8" -> 8 [] c = "9" -> 9

RECURSIVE ParseDigits(_, _, _)
ParseDigits(t, i, n) ==
    IF i <= Len(t) /\ t[i] \in Digits
    THEN ParseDigits(t, i + 1, 10 * n + DigitValue(t[i]))
    ELSE Parsed(JNum(n), i)

\* -?(0|[1-9]\d*)
ParseNumber(t, i) ==
    LET neg == t[i] = "-"
        k == IF neg THEN i + 1 ELSE i
    IN  IF k > Len(t) \/ t[k] \notin Digits THEN NoParse(i)
        ELSE LET r == IF t[k] = "0" THEN Parsed(JNum(0), k + 1)
                      ELSE ParseDigits(t, k, 0)
             IN  IF neg THEN Parsed(JNum(0 - r.val.n), r.j) ELSE r

\* d[key] = value
DictSet(kv, key, val) ==
    IF \E k \in 1..Len(kv) : kv[k][1] = key
    THEN [k \in 1..Len(kv) |-> IF kv[k][1] = key THEN <<key, val>> ELSE kv[k]]
    ELSE Append(kv, <<key, val>>)

RECURSIVE ParseValue(_, _)
RECURSIVE ParseArray(_, _, _)
RECURSIVE ParseObject(_, _, _)

\* the members of an array, from the first member at index i
ParseArray(t, i, acc) ==
    LET After(r, k) ==
            IF ~r.ok \/ k > Len(t) THEN NoParse(i)
            ELSE IF t[k] = "]" THEN Parsed(JList(Append(acc, r.val)), k + 1)
            ELSE IF t[k] = "," THEN ParseArray(t, SkipWs(t, k + 1), Append(acc, r.val))
            ELSE NoParse(i)
        Member(r) == After(r, SkipWs(t, r.j))
    IN  Member(ParseValue(t, i))

\* the items of an object, from the quote of the first key at index i
ParseObject(t, i, acc) ==
    IF i > Len(t) \/ t[i] # "\"" THEN NoParse(i)
    ELSE LET After(ok, kv, k) ==
                 IF ~ok \/ k > Len(t) THEN NoParse(i)
                 ELSE IF t[k] = "}" THEN Parsed(JDict(kv), k + 1)
                 ELSE IF t[k] = "," THEN ParseObject(t, SkipWs(t, k + 1), kv)
                 ELSE NoParse(i)
             Value(key, r) ==
                 After(r.ok, DictSet(acc, key.val.s, r.val), SkipWs(t, r.j))
             Colon(key, c) ==
                 IF ~key.ok \/ c > Len(t) \/ t[c] # ":" THEN NoParse(i)
                 ELSE Value(key, ParseValue(t, SkipWs(t, c + 1)))
             Key(key) == Colon(key, SkipWs(t, key.j))
         IN  Key(ParseString(t, i + 1, <<>>))

\* raw_decode(t, i): the value that starts exactly at index i
ParseValue(t, i) ==
    IF i > Len(t) THEN NoParse(i)
    ELSE IF t[i] = "\"" THEN ParseString(t, i + 1, <<>>)
    ELSE IF t[i] = "[" THEN
        LET k == SkipWs(t, i + 1)
        IN  IF k <= Len(t) /\ t[k] = "]" THEN Parsed(JList(<<>>), k + 1)
            ELSE ParseArray(t, k, <<>>)
    ELSE IF t[i] = "{" THEN
        LET k == SkipWs(t, i + 1)
        IN  IF k <= Len(t) /\ t[k] = "}" THEN Parsed(JDict(<<>>), k + 1)
            ELSE ParseObject(t, k, <<>>)
    ELSE IF StartsAt(t, i, <<"n", "u", "l", "l">>) THEN Parsed(JNull, i + 4)
    ELSE IF StartsAt(t, i, <<"t", "r", "u", "e">>) THEN Parsed(JBool(TRUE), i + 4)
    ELSE IF StartsAt(t, i, <<"f", "a", "l", "s", "e">>) THEN Parsed(JBool(FALSE), i + 5)
    ELSE ParseNumber(t, i)

\* json.loads(t): one value, with blanks around it and nothing else
json_loads(t) ==
    LET Whole(r) == IF r.ok /\ SkipWs(t, r.j) > Len(t) THEN r ELSE NoParse(1)
    IN  Whole(ParseValue(t, SkipWs(t, 1)))

----------------------------------------------------------------------------
(* pipeline.py: the input loader. *)

_CAND_LIST_KEYS ==
    <<
      <<"i", "t", "e", "m", "s">>,
      <<"d", "a", "t", "a">>,
      <<"l", "i", "s", "t">>,
      <<"r", "o", "w", "s">>,
      <<"r", "e", "s", "u", "l", "t", "s">>,
      <<"r", "e", "c", "o", "r", "d", "s">>,
      <<"n", "e", "w", "s">>,
      <<"a", "r", "t", "i", "c", "l", "e", "s">>
    >>

_TEXT_KEYS ==
    <<
      <<"c", "o", "n", "t", "e", "n", "t", "s">>,
      <<"c", "o", "n", "t", "e", "n", "t">>,
      <<"t", "e", "x", "t">>,
      <<"b", "o", "d", "y">>,
      <<"d", "e", "s", "c", "r", "i", "p", "t", "i", "o", "n">>,
      <<"d", "e", "s", "c">>,
      <<"a", "r", "t", "i", "c", "l", "e">>,
      <<"c", "o", "n", "t", "e", "n", "t", "B", "o", "d", "y">>,
      <<"c", "o", "n", "t", "e", "n", "t", "_", "h", "t", "m", "l">>,
      <<"h", "t", "m", "l">>
    >>

_TITLE_KEYS ==
    <<
      <<"t", "i", "t", "l", "e">>,
      <<"h", "e", "a", "d", "l", "i", "n", "e">>,
      <<"s", "u", "b", "j", "e", "c", "t">>,
      <<"n", "a", "m", "e">>
    >>

exact_keys ==
    <<
      <<"N", "e", "w", "s", "I", "t", "e", "m", "I", "d">>,
      <<"n", "e", "w", "s", "_", "i", "t", "e", "m", "_", "i", "d">>,
      <<"n", "e", "w", "s", "I", "d", "e", "n", "t", "i", "f", "y", "I", "d">>,
      <<"n", "e", "w", "s", "I", "d", "e", "n", "t", "i", "f", "y", "I", "D">>,
      <<"n", "e", "w", "s", "i", "d", "e", "n", "t", "i", "f", "y", "i", "d">>,
      <<"n", "e", "w", "s", "I", "d">>,
      <<"n", "e", "w", "s", "I", "D">>,
      <<"i", "d">>
    >>

_is_item_dict(d) ==
    /\ d.ty = "dict"
    /\ \E k \in 1..Len(_TEXT_KEYS) :
           HasKey(d, _TEXT_KEYS[k]) /\ DictGet(d, _TEXT_KEYS[k]).ty = "str"

\* [x for x in xs if isinstance(x, dict)]
RECURSIVE Dicts(_)
Dicts(xs) ==
    IF xs = <<>> THEN <<>>
    ELSE IF Head(xs).ty = "dict" THEN <<Head(xs)>> \o Dicts(Tail(xs))
    ELSE Dicts(Tail(xs))

HasItemDict(xs) == \E k \in 1..Len(xs) : _is_item_dict(xs[k])

\* what _extract_candidate_items_anywhere(node, found) adds to found
RECURSIVE FoundIn(_)
RECURSIVE FoundInAll(_)
RECURSIVE FoundByKeys(_, _)
FoundInAll(xs) ==
    IF xs = <<>> THEN <<>> ELSE FoundIn(Head(xs)) \o FoundInAll(Tail(xs))
FoundByKeys(node, k) ==
    IF k > Len(_CAND_LIST_KEYS) THEN <<>>
    ELSE LET v == DictGet(node, _CAND_LIST_KEYS[k])
             here == IF v.ty # "list" THEN <<>>
                     ELSE IF HasItemDict(Dicts(v.xs)) THEN Dicts(v.xs)
                     ELSE FoundIn(v)
         IN  here \o FoundByKeys(node, k + 1)
FoundIn(node) ==
    IF node.ty = "list"
    THEN IF HasItemDict(Dicts(node.xs)) THEN Dicts(node.xs) ELSE FoundInAll(node.xs)
    ELSE IF node.ty = "dict"
    THEN FoundByKeys(node, 1) \o FoundInAll([k \in 1..Len(node.kv) |-> node.kv[k][2]])
    ELSE <<>>

_extract_candidate_items_anywhere(node) == FoundIn(node)

\* a mutation of the comma repair: the text is left as it was
InjectComma_text_kept(text, i) == text

\* text = text[:i] + ',' + text[i+1:], on the 1-based position i
InjectComma(text, i) == [text EXCEPT ![i] = ","]

\* whether the except branch of _parse_multiple_json_values repairs at i
AdjacentArrays(text, i) ==
    /\ i + 1 <= Len(text)
    /\ \/ text[i] = "]" /\ text[i + 1] = "["
       \/ text[i] = "]" /\ text[i + 1] = " " /\ i + 2 <= Len(text) /\ text[i + 2] = "["

\* a mutation of the scan: a decoding error ends the scan and the values
\* decoded so far are returned
RECURSIVE ScanValues_keep_decoded(_, _, _)
ScanValues_keep_decoded(text, i0, values) ==
    LET n == Len(text)
        Decode(i, r) ==
            IF i > n THEN [ok |-> TRUE, values |-> values]
            ELSE IF r.ok THEN ScanValues_keep_decoded(text, r.j, Append(values, r.val))
            ELSE [ok |-> values # <<>>, values |-> values]
        At(i) == Decode(i, ParseValue(text, i))
    IN  At(SkipSpace(text, i0))

\* the scan of _parse_multiple_json_values from index i: [ok, values], ok
\* FALSE when the JSONDecodeError leaves the function
RECURSIVE ScanValues(_, _, _)
ScanValues(text, i0, values) ==
    LET n == Len(text)
        Decode(i, r) ==
            IF i > n THEN [ok |-> TRUE, values |-> values]
            ELSE IF r.ok THEN ScanValues(text, r.j, Append(values, r.val))
            ELSE IF AdjacentArrays(text, i)
            THEN ScanValues(InjectComma(text, i), i, values)
            ELSE [ok |-> FALSE, values |-> <<>>]
        At(i) == Decode(i, ParseValue(text, i))
    IN  At(SkipSpace(text, i0))

\* a mutation of _parse_multiple_json_values: the scan stops after the
\* first value
_parse_multiple_json_values_first_only(text) ==
    LET r == ParseValue(text, SkipSpace(text, 1))
    IN  IF r.ok THEN [ok |-> TRUE, values |-> <<r.val>>]
        ELSE ScanValues(text, 1, <<>>)

_parse_multiple_json_values(text) == ScanValues(text, 1, <<>>)

\* the first of _CAND_LIST_KEYS that holds a list in val, 0 if none
FirstListKey(val) ==
    LET hits == {k \in 1..Len(_CAND_LIST_KEYS) :
                    DictGet(val, _CAND_LIST_KEYS[k]).ty = "list"}
    IN  IF hits = {} THEN 0 ELSE CHOOSE k \in hits : \A h \in hits : k <= h

\* what one parsed value adds to the items
ItemsOf(val) ==
    IF val.ty = "list" THEN Dicts(val.xs)
    ELSE IF val.ty = "dict"
    THEN IF FirstListKey(val) # 0
         THEN Dicts(DictGet(val, _CAND_LIST_KEYS[FirstListKey(val)]).xs)
         ELSE <<val>>
    ELSE <<>>

\* a mutation of _merge_values_into_items: each item is put in front
RECURSIVE _merge_values_into_items_prepend(_)
_merge_values_into_items_prepend(values) ==
    IF values = <<>> THEN <<>>
    ELSE LET its == ItemsOf(Head(values))
         IN  _merge_values_into_items_prepend(Tail(values))
                 \o [k \in 1..Len(its) |-> its[Len(its) + 1 - k]]

RECURSIVE _merge_values_into_items(_)
_merge_values_into_items(values) ==
    IF values = <<>> THEN <<>>
    ELSE ItemsOf(Head(values)) \o _merge_values_into_items(Tail(values))

\* raw.splitlines(), for a text whose only line break is "\n"
RECURSIVE SplitLines(_, _, _)
SplitLines(t, i, start) ==
    IF i > Len(t) THEN IF start > Len(t) THEN <<>> ELSE <<Slice(t, start, i)>>
    ELSE IF t[i] = "\n" THEN <<Slice(t, start, i)>> \o SplitLines(t, i + 1, i + 1)
    ELSE SplitLines(t, i + 1, start)

RECURSIVE NonBlank(_)
NonBlank(ls) ==
    IF ls = <<>> THEN <<>>
    ELSE IF Strip(Head(ls)) = <<>> THEN NonBlank(Tail(ls))
    ELSE <<Head(ls)>> \o NonBlank(Tail(ls))

Key_title == <<"t", "i", "t", "l", "e">>
Key_text == <<"t", "e", "x", "t">>

\* {"title": "", "text": raw}
PlainTextItem(raw) == JDict(<< <<Key_title, JStr(<<>>)>>, <<Key_text, JStr(raw)>> >>)

\* a mutation of the JSON Lines attempt: the test for a newline is left out
JsonLines_no_newline_test(raw) ==
    LET Objects(parsed) ==
            IF /\ raw[1] = "{"
               /\ \A k \in 1..Len(parsed) : parsed[k].ok /\ parsed[k].val.ty = "dict"
               /\ parsed # <<>>
            THEN [ok |-> TRUE, items |-> [k \in 1..Len(parsed) |-> parsed[k].val]]
            ELSE [ok |-> FALSE, items |-> <<>>]
        Loads(lines) == Objects([k \in 1..Len(lines) |-> json_loads(lines[k])])
    IN  Loads(NonBlank(SplitLines(raw, 1, 1)))

\* the JSON Lines attempt: [ok, items]
JsonLines(raw) ==
    LET Objects(parsed) ==
            IF /\ raw[1] = "{" /\ \E k \in 1..Len(raw) : raw[k] = "\n"
               /\ \A k \in 1..Len(parsed) : parsed[k].ok /\ parsed[k].val.ty = "dict"
               /\ parsed # <<>>
            THEN [ok |-> TRUE, items |-> [k \in 1..Len(parsed) |-> parsed[k].val]]
            ELSE [ok |-> FALSE, items |-> <<>>]
        Loads(lines) == Objects([k \in 1..Len(lines) |-> json_loads(lines[k])])
    IN  Loads(NonBlank(SplitLines(raw, 1, 1)))

\* _load_input after the JSON Lines attempt, from the parsed values on
ItemsFromValues(raw, values) ==
    LET \* l.251-252: the dicts of a top-level list
        TopList(items, vals) ==
            IF items = <<>> /\ vals # <<>> /\ vals[1].ty = "list"
            THEN Dicts(vals[1].xs) ELSE items
        \* l.244-249: the deep search
        Found(items, vals, found) ==
            TopList(IF found # <<>> THEN found ELSE items, vals)
        DeepSearch(pair) ==
            Found(pair.items, pair.vals,
                  IF pair.items = <<>> /\ pair.vals # <<>> /\ pair.vals[1].ty = "dict"
                  THEN _extract_candidate_items_anywhere(pair.vals[1]) ELSE <<>>)
        \* l.235-241: the retry after a top-level empty list
        Retry(items, retry) ==
            IF /\ items = <<>> /\ values # <<>>
               /\ values[1].ty = "list" /\ values[1].xs = <<>>
               /\ retry.ok
            THEN [items |-> _merge_values_into_items(retry.values), vals |-> retry.values]
            ELSE [items |-> items, vals |-> values]
        Merged(items) == DeepSearch(Retry(items, _parse_multiple_json_values(raw)))
    IN  [items |-> Merged(_merge_values_into_items(values))]

\* a mutation of _load_input: no last resort when no item was found
_load_input_no_last_resort(text) ==
    LET Values(raw, one, multi) ==
            IF ~one.ok /\ ~multi.ok THEN <<PlainTextItem(raw)>>
            ELSE ItemsFromValues(raw, IF one.ok THEN <<one.val>> ELSE multi.values).items
        Lines(raw, jsonl) ==
            IF jsonl.ok THEN jsonl.items
            ELSE Values(raw, json_loads(raw), _parse_multiple_json_values(raw))
        Raw(raw) == IF raw = <<>> THEN <<>> ELSE Lines(raw, JsonLines(raw))
    IN  Raw(Strip(text))

_load_input(text) ==
    LET \* l.255-257: the last resort
        LastResort(raw, items) ==
            IF items = <<>> THEN <<PlainTextItem(raw)>> ELSE items
        \* l.216-229: one value, else the scan, else the plain text
        Values(raw, one, multi) ==
            IF ~one.ok /\ ~multi.ok THEN <<PlainTextItem(raw)>>
            ELSE LastResort(raw,
                     ItemsFromValues(raw, IF one.ok THEN <<one.val>>
                                          ELSE multi.values).items)
        \* l.206-214: JSON Lines
        Lines(raw, jsonl) ==
            IF jsonl.ok THEN jsonl.items
            ELSE Values(raw, json_loads(raw), _parse_multiple_json_values(raw))
        \* l.201-203
        Raw(raw) == IF raw = <<>> THEN <<>> ELSE Lines(raw, JsonLines(raw))
    IN  Raw(Strip(text))

----------------------------------------------------------------------------
(* pipeline.py: normalisation of the items and the output record. *)

AsciiLetters ==
    { "a", "b", "c", "d", "e", "f", "g", "h", "i", "j", "k", "l", "m",
      "n", "o", "p", "q", "r", "s", "t", "u", "v", "w", "x", "y", "z",
      "A", "B", "C", "D", "E", "F", "G", "H", "I", "J", "K", "L", "M",
      "N", "O", "P", "Q", "R", "S", "T", "U", "V", "W", "X", "Y", "Z" }

\* _TAG_RX = <[a-zA-Z][^>]*>
_has_html(s) ==
    \E i \in 1..Len(s) :
        /\ s[i] = "<"
        /\ i + 1 <= Len(s) /\ s[i + 1] \in AsciiLetters
        /\ \E j \in (i + 2)..Len(s) : s[j] = ">"

DigitChars == <<"0", "1", "2", "3", "4", "5", "6", "7", "8", "9">>

RECURSIVE NatText(_)
NatText(n) ==
    IF n < 10 THEN <<DigitChars[n + 1]>>
    ELSE NatText(n \div 10) \o <<DigitChars[(n % 10) + 1]>>

RECURSIVE JoinWith(_, _)
JoinWith(ss, sep) ==
    IF ss = <<>> THEN <<>>
    ELSE IF Len(ss) = 1 THEN ss[1]
    ELSE ss[1] \o sep \o JoinWith(Tail(ss), sep)

\* str(v) and repr(v) of a JSON value; the repr of a str is the str between
\* single quotes (a str with a quote or a backslash is not among the ids)
RECURSIVE PyStr(_)
RECURSIVE PyRepr(_)
PyRepr(v) == IF v.ty = "str" THEN <<"'">> \o v.s \o <<"'">> ELSE PyStr(v)
PyStr(v) ==
    CASE v.ty = "str" -> v.s
      [] v.ty = "null" -> <<"N", "o", "n", "e">>
      [] v.ty = "bool" -> IF v.b THEN <<"T", "r", "u", "e">>
                          ELSE <<"F", "a", "l", "s", "e">>
      [] v.ty = "num" -> IF v.n < 0 THEN <<"-">> \o NatText(0 - v.n) ELSE NatText(v.n)
      [] v.ty = "list" ->
            <<"[">> \o JoinWith([k \in 1..Len(v.xs) |-> PyRepr(v.xs[k])], <<",", " ">>)
                \o <<"]">>
      [] v.ty = "dict" ->
            <<"{">> \o JoinWith([k \in 1..Len(v.kv) |->
                                   PyRepr(JStr(v.kv[k][1])) \o <<":", " ">>
                                       \o PyRepr(v.kv[k][2])], <<",", " ">>)
                \o <<"}">>

\* None is JNull, an id is a JStr
_coerce_id(v) ==
    IF v.ty = "null" \/ Strip(PyStr(v)) = <<>> THEN JNull ELSE JStr(Strip(PyStr(v)))

LowerAlnum ==
    { "a", "b", "c", "d", "e", "f", "g", "h", "i", "j", "k", "l", "m",
      "n", "o", "p", "q", "r", "s", "t", "u", "v", "w", "x", "y", "z" } \cup Digits

\* re.sub(r"[^a-z0-9]", "", k.lower())
RECURSIVE KeepAlnum(_)
KeepAlnum(s) ==
    IF s = <<>> THEN <<>>
    ELSE IF Head(s) \in LowerAlnum THEN <<Head(s)>> \o KeepAlnum(Tail(s))
    ELSE KeepAlnum(Tail(s))

LooseIdKey(k) ==
    LET key_norm == KeepAlnum(Lower(k))
    IN  \/ Contains(key_norm, <<"n", "e", "w", "s">>) /\ Contains(key_norm, <<"i", "d">>)
        \/ Contains(key_norm, <<"i", "d", "e", "n", "t", "i", "f", "y">>)
               /\ Contains(key_norm, <<"i", "d">>)

_get_news_id(item) ==
    LET exact == {k \in 1..Len(exact_keys) :
                     HasKey(item, exact_keys[k])
                         /\ _coerce_id(DictGet(item, exact_keys[k])) # JNull}
        loose == {k \in 1..Len(item.kv) :
                     LooseIdKey(item.kv[k][1]) /\ _coerce_id(item.kv[k][2]) # JNull}
    IN  IF exact # {}
        THEN _coerce_id(DictGet(item, exact_keys[CHOOSE k \in exact : \A h \in exact : k <= h]))
        ELSE IF loose # {}
        THEN _coerce_id(item.kv[CHOOSE k \in loose : \A h \in loose : k <= h][2])
        ELSE JNull

\* the value of the first of keys that it holds with a str, else ""
FirstStr(it, keys) ==
    LET hits == {k \in 1..Len(keys) :
                    HasKey(it, keys[k]) /\ DictGet(it, keys[k]).ty = "str"}
    IN  IF hits = {} THEN <<>>
        ELSE DictGet(it, keys[CHOOSE k \in hits : \A h \in hits : k <= h]).s

NormalizeItem(it) ==
    [NewsItemId |-> _get_news_id(it),
     title |-> FirstStr(it, _TITLE_KEYS),
     contents |-> FirstStr(it, _TEXT_KEYS),
     plain_text |-> strip_html(FirstStr(it, _TEXT_KEYS)),
     has_html |-> _has_html(FirstStr(it, _TEXT_KEYS))]

_normalize_items(items) == [k \in 1..Len(items) |-> NormalizeItem(items[k])]

\* the members of xs that are not empty once stripped, as they are
RECURSIVE NonEmptyUnstripped(_)
NonEmptyUnstripped(xs) ==
    IF xs = <<>> THEN <<>>
    ELSE IF Strip(Head(xs)) = <<>> THEN NonEmptyUnstripped(Tail(xs))
    ELSE <<Head(xs)>> \o NonEmptyUnstripped(Tail(xs))

\* a mutation of pipeline._pad4: the padding loop runs once too often
\* (while len(xs) <= 4)
pipeline_pad4_one_more(xs) == PadTo(Take(Dedup(NonEmptyUnstripped(xs)), 4), 5)

\* pipeline._pad4
pipeline_pad4(xs) == PadTo(Take(Dedup(NonEmptyUnstripped(xs)), 4), 4)

\* the record main appends to results for item
OutputRecord(item, summary_lines, primary_cat, subcats) ==
    [NewsItemId |-> item.NewsItemId,
     title |-> item.title,
     summary |-> JoinWith(Take(summary_lines, 3), <<"\n">>),
     summary_lines |-> Take(summary_lines, 3),
     category |-> primary_cat,
     subcategories |-> pipeline_pad4(subcats),
     region |-> detect_region(item.plain_text, item.title),
     source_meta |-> [has_html |-> item.has_html,
                      length_chars |-> Len(item.plain_text)]]

----------------------------------------------------------------------------
(* The replies of json_chat that are considered.  The failures are a      *)
(* raised exception, a reply that is not an object, and a reply whose     *)
(* field cannot be used: summary_lines that is a number or holds no       *)
(* usable line, a primary that is a number, a subcategory that is a       *)
(* number.                                                                *)

SummaryFailures ==
    {
      Raised,
      Returned(JNull),
      Returned(JList(<<JNum(1)>>)),
      Returned(JDict(<<<<<<"s", "u", "m", "m", "a", "r", "y", "_", "l", "i", "n", "e", "s">>, JNum(5)>>>>)),
      Returned(JDict(<<<<<<"s", "u", "m", "m", "a", "r", "y", "_", "l", "i", "n", "e", "s">>, JList(<<JNum(1), JStr(<<" ">>)>>)>>>>))
    }

GoodSummary ==
    Returned(JDict(<<<<<<"s", "u", "m", "m", "a", "r", "y", "_", "l", "i", "n", "e", "s">>, JList(<<JStr(<<"ji", "+won", " ", "hwag", "dae">>), JStr(<<>>), JStr(<<"bal", "pyo", " ", "haess", "da", ".">>)>>)>>>>))

MoreSummaryReplies ==
    {
      Returned(JDict(<<<<<<"s", "u", "m", "m", "a", "r", "y", "_", "l", "i", "n", "e", "s">>, JList(<<JStr(<<"+yo", "+yag", " ", "han", " ", "jul", ":">>)>>)>>>>)),
      Returned(JDict(<<<<<<"s", "u", "m", "m", "a", "r", "y", "_", "l", "i", "n", "e", "s">>, JList(<<JStr(<<"ha", "na", ".">>), JStr(<<"dul", " ", "+i", "da">>), JStr(<<"ses", "!">>), JStr(<<"nes">>), JStr(<<"da", "seos">>)>>)>>>>))
    }

ClassifyFailures ==
    {
      Raised,
      Returned(JList(<<JNum(1)>>)),
      Returned(JDict(<<<<<<"p", "r", "i", "m", "a", "r", "y">>, JNum(3)>>>>)),
      Returned(JDict(<<<<<<"p", "r", "i", "m", "a", "r", "y">>, JStr(<<"jeong", "chaeg", "_", "jeong", "bu">>)>>, <<<<"s", "u", "b", "c", "a", "t", "e", "g", "o", "r", "i", "e", "s">>, JList(<<JNum(1)>>)>>>>))
    }

GoodClassify ==
    Returned(JDict(<<<<<<"p", "r", "i", "m", "a", "r", "y">>, JStr(<<"sa", "hoe">>)>>, <<<<"s", "u", "b", "c", "a", "t", "e", "g", "o", "r", "i", "e", "s">>, JList(<<JStr(<<"bog", "ji">>), JStr(<<"gyo", "+yug">>), JStr(<<"+an", "jeon">>), JStr(<<"ju", "geo">>)>>)>>>>))

MoreClassifyReplies ==
    {
      Returned(JDict(<<<<<<"p", "r", "i", "m", "a", "r", "y">>, JStr(<<"jeong", "chaeg", "/", "jeong", "bu">>)>>, <<<<"s", "u", "b", "c", "a", "t", "e", "g", "o", "r", "i", "e", "s">>, JList(<<JStr(<<"A", "I">>), JStr(<<"a", "i">>), JStr(<<" ", "haeng", "sa", " ", " ", "so", "sig", " ">>)>>)>>>>)),
      Returned(JDict(<<<<<<"p", "r", "i", "m", "a", "r", "y">>, JStr(<<"seu", "po", "cheu">>)>>>>)),
      Returned(JDict(<<<<<<"s", "u", "b", "c", "a", "t", "e", "g", "o", "r", "i", "e", "s">>, JList(<<JStr(<<"bog", "ji">>), JStr(<<"bog", "ji">>), JStr(<<"a">>), JStr(<<"b">>), JStr(<<"c">>)>>)>>>>))
    }

\* the outcomes of the call an operation makes; when it makes no call
\* there is no outcome and the operation ignores the one it is given
ChatOutcomes(calls, outcomes) == IF calls THEN outcomes ELSE {Raised}

\* history: how the enrichment of a summary or of a classification ended
EnrichPath(calls, o, failures) ==
    IF ~calls THEN "no_call" ELSE IF o \in failures THEN "failed" ELSE "ok"

----------------------------------------------------------------------------
(* Processor.summarize on a text and a title, as main calls it. *)

\* number of pieces the text of a summary is concatenated from
MaxSentences == 3

\* number of pieces the text of a classification is concatenated from
MaxClassifyPieces == 2

\* number of members of the input array of main
MaxItems == 2

\* number of pieces the text given to the loader is concatenated from
MaxLoadPieces == 3

SentencePieces ==
    <<
      <<"jeong", "bu", "neun", " ", "2", "0", "2", "4", "nyeon", " ", "ji", "+won", "+eul", " ", "hwag", "dae", "han", "da", ".", " ">>,
      <<"jjalb", "da", ".", " ">>,
      <<"bu", "san", " ", "chug", "je", "ga", " ", "+yeol", "rin", "da", " ">>,
      <<"su", "chul", " ", "1", "2", "%", " ", "jeung", "ga", "!", " ">>
    >>

SummaryTitles ==
    {
      <<>>,
      <<"bu", "san", " ", "chug", "je">>,
      <<"jeong", "bu", "neun", " ", "2", "0", "2", "4", "nyeon">>
    }

ClassifyPieces ==
    <<
      <<"dae", "tong", "ryeong", " ">>,
      <<"chae", "+yong", " ">>,
      <<"gae", "jeong", " ">>,
      <<"bu", "san", " ", "haeng", "sa", " ">>,
      <<"dae", "chul", " ", "hal", "+in", " ">>,
      <<"A", "I", " ", "a", "i", " ">>,
      <<"+in", "gong", "ji", "neung", " ">>,
      <<"gi", "sa", " ">>
    >>

ClassifyTitles ==
    {
      <<>>,
      <<"jeong", "bu", " ", "bal", "pyo">>
    }

PiecesOf(table, ks) == Concat([i \in 1..Len(ks) |-> table[ks[i]]])

SummaryInputs ==
    {[text |-> PiecesOf(SentencePieces, ks), title |-> t] :
        ks \in SeqsUpTo(1..Len(SentencePieces), MaxSentences), t \in SummaryTitles}

InitSummarize ==
    /\ pc = "summarize_text"
    /\ input \in SummaryInputs
    /\ llm \in BOOLEAN
    /\ out = <<>>
    /\ parts = <<>>
    /\ raw_items = <<>> /\ norm_items = <<>> /\ cur = <<>>
    /\ results = <<>> /\ enrich = <<>>

\* main, lines 325 and 333, for one text
SummarizeText ==
    /\ pc = "summarize_text"
    /\ \E o \in ChatOutcomes(SummarizeCalls(input.text, llm),
                             SummaryFailures \cup {GoodSummary} \cup MoreSummaryReplies) :
          /\ out' = <<[summary_lines |->
                          Take(summarize(input.text, input.title, llm, o), 3)]>>
          /\ enrich' = <<[summary |->
                            EnrichPath(SummarizeCalls(input.text, llm), o, SummaryFailures)]>>
    /\ pc' = "done"
    /\ UNCHANGED <<input, parts, llm, raw_items, norm_items, cur, results>>

NextSummarize == SummarizeText

SpecSummarize == InitSummarize /\ [][NextSummarize]_vars

----------------------------------------------------------------------------
(* Processor.classify on a text and a title, as main calls it. *)

ClassifyInputs ==
    {[text |-> PiecesOf(ClassifyPieces, ks), title |-> t] :
        ks \in SeqsUpTo(1..Len(ClassifyPieces), MaxClassifyPieces), t \in ClassifyTitles}

InitClassify ==
    /\ pc = "classify_text"
    /\ input \in ClassifyInputs
    /\ llm \in BOOLEAN
    /\ out = <<>>
    /\ parts = <<>>
    /\ raw_items = <<>> /\ norm_items = <<>> /\ cur = <<>>
    /\ results = <<>> /\ enrich = <<>>

\* main, lines 326, 334 and 335, for one text; parts keeps the outcome of
\* the call of json_chat the classification was made from
ClassifyText ==
    /\ pc = "classify_text"
    /\ \E o \in ChatOutcomes(ClassifyCalls(input.text, input.title, llm),
                             ClassifyFailures \cup {GoodClassify} \cup MoreClassifyReplies) :
          LET r == classify(input.text, input.title, llm, o)
          IN  /\ out' = <<[category |-> r.primary,
                           subcategories |-> pipeline_pad4(r.subs)]>>
              /\ enrich' = <<[classify |->
                                EnrichPath(ClassifyCalls(input.text, input.title, llm),
                                           o, ClassifyFailures)]>>
              /\ parts' = [reply |-> o]
    /\ pc' = "done"
    /\ UNCHANGED <<input, llm, raw_items, norm_items, cur, results>>

NextClassify == ClassifyText

SpecClassify == InitClassify /\ [][NextClassify]_vars

----------------------------------------------------------------------------
(* pipeline.main: the input file is loaded, the items are normalised, the  *)
(* processor is built, each item is summarised, classified and appended to *)
(* results, and results is written.                                        *)

ItemPool ==
    <<
      [text |-> <<"{", "\"", "i", "d", "\"", ":", "7", ",", "\"", "t", "i", "t", "l", "e", "\"", ":", "\"", "bu", "san", " ", "chug", "je", "\"", ",", "\"", "c", "o", "n", "t", "e", "n", "t", "\"", ":", "\"", "<", "p", ">", "bu", "san", "si", " ", "chug", "je", " ", "gae", "choe", ".", "<", "/", "p", ">", "\"", "}">>,
       NewsItemId |-> JStr(<<"7">>),
       title |-> <<"bu", "san", " ", "chug", "je">>,
       length_chars |-> 10],
      [text |-> <<"{", "\"", "n", "e", "w", "s", "I", "d", "\"", ":", "\"", "n", "2", "\"", ",", "\"", "h", "e", "a", "d", "l", "i", "n", "e", "\"", ":", "\"", "A", "I", " ", "jeong", "chaeg", "\"", ",", "\"", "t", "e", "x", "t", "\"", ":", "\"", "jeong", "bu", " ", "A", "I", " ", "+yeon", "gu", " ", "ji", "+won", "\"", "}">>,
       NewsItemId |-> JStr(<<"n", "2">>),
       title |-> <<"A", "I", " ", "jeong", "chaeg">>,
       length_chars |-> 11],
      [text |-> <<"{", "\"", "t", "i", "t", "l", "e", "\"", ":", "\"", "dae", "chul", "\"", ",", "\"", "b", "o", "d", "y", "\"", ":", "\"", "dae", "chul", " ", "1", "2", "%", " ", "+in", "ha", ".", "\"", "}">>,
       NewsItemId |-> JNull,
       title |-> <<"dae", "chul">>,
       length_chars |-> 10]
    >>

OtherInputs ==
    {
      <<" ", "\n">>,
      <<"bu", "san", " ", "chug", "je", " ", "gae", "choe">>,
      <<"[", "{", "\"", "t", "e", "x", "t", "\"", ":", "\"", "su", "chul", " ", "jeung", "ga", "\"", "}", "]", " ", "[", "{", "\"", "t", "e", "x", "t", "\"", ":", "\"", "chae", "+yong", "\"", "}", "]">>
    }

\* the text of the JSON array of the members ms of ItemPool
ArrayText(ms) ==
    <<"[">> \o JoinWith([k \in 1..Len(ms) |-> ItemPool[ms[k]].text], <<",">>) \o <<"]">>

Init ==
    /\ pc = "load"
    /\ \/ /\ parts \in {[kind |-> "array", members |-> ms] :
                           ms \in SeqsUpTo(1..Len(ItemPool), MaxItems)}
          /\ input = ArrayText(parts.members)
       \/ /\ parts = [kind |-> "other", members |-> <<>>]
          /\ input \in OtherInputs
    /\ out = <<>>
    /\ IdleMain

\* raw_items = _load_input(in_path)
LoadInput ==
    /\ pc = "load"
    /\ raw_items' = _load_input(input)
    /\ pc' = "normalize"
    /\ UNCHANGED <<input, out, parts, llm, norm_items, cur, results, enrich>>

\* norm_items = _normalize_items(raw_items)
NormalizeItems ==
    /\ pc = "normalize"
    /\ norm_items' = _normalize_items(raw_items)
    /\ pc' = "build"
    /\ UNCHANGED <<input, out, parts, llm, raw_items, cur, results, enrich>>

\* proc = build_processor(): a client when the environment holds a key
BuildProcessor ==
    /\ pc = "build"
    /\ llm' \in BOOLEAN
    /\ pc' = IF norm_items = <<>> THEN "write" ELSE "summarize"
    /\ UNCHANGED <<input, out, parts, raw_items, norm_items, cur, results, enrich>>

\* the item of the iteration that is running
Item == norm_items[Len(results) + 1]

\* summary_lines = proc.summarize(text, title=title) or []
SummarizeItem ==
    /\ pc = "summarize"
    /\ \E o \in ChatOutcomes(SummarizeCalls(Item.plain_text, llm),
                             SummaryFailures \cup {GoodSummary}) :
          /\ cur' = [summary_lines |-> summarize(Item.plain_text, Item.title, llm, o)]
          /\ enrich' = Append(enrich,
                 [summary |-> EnrichPath(SummarizeCalls(Item.plain_text, llm),
                                         o, SummaryFailures),
                  classify |-> "pending"])
    /\ pc' = "classify"
    /\ UNCHANGED <<input, out, parts, llm, raw_items, norm_items, results>>

\* primary_cat, subcats = proc.classify(text, title=title)
ClassifyItem ==
    /\ pc = "classify"
    /\ \E o \in ChatOutcomes(ClassifyCalls(Item.plain_text, Item.title, llm),
                             ClassifyFailures \cup {GoodClassify}) :
          LET r == classify(Item.plain_text, Item.title, llm, o)
          IN  /\ cur' = [summary_lines |-> cur.summary_lines,
                         primary_cat |-> r.primary,
                         subcats |-> r.subs]
              /\ enrich' = [enrich EXCEPT ![Len(enrich)].classify =
                               EnrichPath(ClassifyCalls(Item.plain_text, Item.title, llm),
                                          o, ClassifyFailures)]
    /\ pc' = "emit"
    /\ UNCHANGED <<input, out, parts, llm, raw_items, norm_items, results>>

\* region = proc.detect_region(...); results.append({...}); next item
EmitRecord ==
    /\ pc = "emit"
    /\ results' = Append(results,
                         OutputRecord(Item, cur.summary_lines, cur.primary_cat, cur.subcats))
    /\ cur' = <<>>
    /\ pc' = IF Len(results) + 1 < Len(norm_items) THEN "summarize" ELSE "write"
    /\ UNCHANGED <<input, out, parts, llm, raw_items, norm_items, enrich>>

\* out_path.write_text(json.dumps(results, ...))
WriteOutput ==
    /\ pc = "write"
    /\ out' = results
    /\ pc' = "done"
    /\ UNCHANGED <<input, parts, llm, raw_items, norm_items, cur, results, enrich>>

Next ==
    \/ LoadInput
    \/ NormalizeItems
    \/ BuildProcessor
    \/ SummarizeItem
    \/ ClassifyItem
    \/ EmitRecord
    \/ WriteOutput

Spec == Init /\ [][Next]_vars

----------------------------------------------------------------------------
(* _load_input on texts put together from documents, blanks and other     *)
(* characters.                                                             *)

LoadPieces ==
    <<
      [text |-> <<"[", "]">>, kind |-> "array",
       val |-> JList(<<>>)],
      [text |-> <<"[", "{", "\"", "a", "\"", ":", "1", "}", "]">>, kind |-> "array",
       val |-> JList(<<JDict(<<<<<<"a">>, JNum(1)>>>>)>>)],
      [text |-> <<"[", "{", "\"", "t", "e", "x", "t", "\"", ":", "\"", "x", "\"", "}", ",", "2", "]">>, kind |-> "array",
       val |-> JList(<<JDict(<<<<<<"t", "e", "x", "t">>, JStr(<<"x">>)>>>>), JNum(2)>>)],
      [text |-> <<"[", "1", "]">>, kind |-> "array",
       val |-> JList(<<JNum(1)>>)],
      [text |-> <<"{", "\"", "b", "\"", ":", "2", "}">>, kind |-> "object",
       val |-> JDict(<<<<<<"b">>, JNum(2)>>>>)],
      [text |-> <<"{", "\"", "i", "t", "e", "m", "s", "\"", ":", "[", "{", "\"", "t", "e", "x", "t", "\"", ":", "\"", "z", "\"", "}", "]", "}">>, kind |-> "wrapper",
       val |-> JDict(<<<<<<"i", "t", "e", "m", "s">>, JList(<<JDict(<<<<<<"t", "e", "x", "t">>, JStr(<<"z">>)>>>>)>>)>>>>)],
      [text |-> <<" ">>, kind |-> "blank",
       val |-> JNull],
      [text |-> <<"\n">>, kind |-> "blank",
       val |-> JNull],
      [text |-> <<"x">>, kind |-> "junk",
       val |-> JNull],
      [text |-> <<"]">>, kind |-> "junk",
       val |-> JNull],
      [text |-> <<"{", "\"", "a", "\"">>, kind |-> "junk",
       val |-> JNull]
    >>

InitLoad ==
    /\ pc = "load"
    /\ parts \in {[kind |-> "pieces", members |-> ks] :
                     ks \in SeqsUpTo(1..Len(LoadPieces), MaxLoadPieces)}
    /\ input = Concat([i \in 1..Len(parts.members) |-> LoadPieces[parts.members[i]].text])
    /\ out = <<>>
    /\ IdleMain

NextLoad == LoadInput

SpecLoad == InitLoad /\ [][NextLoad]_vars

----------------------------------------------------------------------------
(* The claims about the loop of main (checked under Spec). *)

RecordsFollowMembers ==
    /\ Len(out) = Len(parts.members)
    /\ \A k \in 1..Len(out) :
           /\ out[k].NewsItemId = ItemPool[parts.members[k]].NewsItemId
           /\ out[k].title = ItemPool[parts.members[k]].title
           /\ out[k].source_meta.length_chars = ItemPool[parts.members[k]].length_chars

\* C2 (as stated): for every input that is a JSON array of record-like
\* objects, main writes as many records as the array has members, the k-th
\* from the k-th member
ArrayOrderPreservedAll ==
    (pc = "done" /\ parts.kind = "array") => RecordsFollowMembers

\* C2 (amended): the same for every such array with at least one member
ArrayOrderPreserved ==
    (pc = "done" /\ parts.kind = "array" /\ parts.members # <<>>) => RecordsFollowMembers

\* an array of two different members was processed, in its order
ArrayOrderWitness ==
    /\ pc = "done"
    /\ parts.kind = "array" /\ parts.members = <<2, 1>>
    /\ Len(out) = 2
    /\ out[1].title = ItemPool[2].title /\ out[2].title = ItemPool[1].title

----------------------------------------------------------------------------
(* The claims about _load_input (checked under SpecLoad). *)

Piece(k) == LoadPieces[parts.members[k]]

\* the objects a document holds: the object members of an array, a plain
\* object itself
ObjectsOf(p) ==
    IF p.kind = "array" THEN Dicts(p.val.xs)
    ELSE IF p.kind = "object" THEN <<p.val>>
    ELSE <<>>

ExpectedItems == Concat([k \in 1..Len(parts.members) |-> ObjectsOf(Piece(k))])

\* no strategy finds an item: the text does not parse, or its documents are
\* arrays that hold no object
FindsNothing ==
    \/ \E k \in 1..Len(parts.members) : Piece(k).kind = "junk"
    \/ \A k \in 1..Len(parts.members) :
           Piece(k).kind = "blank" \/ (Piece(k).kind = "array" /\ ObjectsOf(Piece(k)) = <<>>)

AtLeastOneRecord ==
    /\ Len(raw_items) >= 1
    /\ FindsNothing => raw_items = <<PlainTextItem(Strip(input))>>

\* C3 (as stated): for every non-empty input text _load_input returns at
\* least one record, and exactly the plain-text record (empty title, the raw
\* text as body) when no strategy finds anything
LoadNeverEmptyAll ==
    (pc = "normalize" /\ input # <<>>) => AtLeastOneRecord

\* C3 (amended): the same for every input text that is not empty once
\* trimmed
LoadNeverEmpty ==
    (pc = "normalize" /\ Strip(input) # <<>>) => AtLeastOneRecord

\* an array followed by a character that is no JSON gave the plain-text
\* record
LoadNeverEmptyWitness ==
    /\ pc = "normalize"
    /\ Len(parts.members) = 2
    /\ Piece(1).kind = "array" /\ Piece(2).kind = "junk"
    /\ raw_items = <<PlainTextItem(Strip(input))>>

\* C10: for a text made of several JSON values (arrays, objects) with
\* nothing or only blanks between them, _load_input returns the object
\* members of every value in input order; an empty array in front does not
\* hide the documents after it
ConcatenatedValuesRecovered ==
    ( /\ pc = "normalize"
      /\ \A k \in 1..Len(parts.members) : Piece(k).kind \in {"array", "object", "blank"}
      /\ ExpectedItems # <<>> )
    => raw_items = ExpectedItems

\* two arrays back to back gave the objects of both, in order
ConcatenatedValuesWitness ==
    /\ pc = "normalize"
    /\ Len(parts.members) = 2
    /\ Piece(1).kind = "array" /\ Piece(2).kind = "array"
    /\ ObjectsOf(Piece(1)) # <<>> /\ ObjectsOf(Piece(2)) # <<>>
    /\ ObjectsOf(Piece(1)) # ObjectsOf(Piece(2))
    /\ raw_items = ObjectsOf(Piece(1)) \o ObjectsOf(Piece(2))

----------------------------------------------------------------------------
(* The claims about the subcategories and the category (checked under      *)
(* SpecClassify) and about the summary lines (checked under SpecSummarize). *)

\* length n, and every empty string after every non-empty one
RightPadded(xs, n) ==
    /\ Len(xs) = n
    /\ \A i, j \in 1..Len(xs) : (i < j /\ xs[i] = <<>>) => xs[j] = <<>>

\* C4: on the enrichment path and on the fallback path, subcategories has
\* length 4, holds no non-empty string twice, and its empty strings come
\* last
SubcategoriesWellFormed ==
    pc = "done" =>
        /\ RightPadded(out[1].subcategories, 4)
        /\ \A i, j \in 1..Len(out[1].subcategories) :
               (i < j /\ out[1].subcategories[i] = out[1].subcategories[j])
                   => out[1].subcategories[i] = <<>>

\* an enrichment reply was used and gave four subcategories
SubcategoriesWitness ==
    /\ pc = "done"
    /\ llm /\ enrich[1].classify = "ok"
    /\ Len(out[1].subcategories) = 4
    /\ out[1].subcategories[4] # <<>>

\* C5: on the enrichment path, whatever the number of lines of the reply,
\* and on the fallback path, whatever the number of sentences and with or
\* without a title, summary_lines has length 3 and no empty line comes
\* before a non-empty one
SummaryLinesPadded ==
    pc = "done" => RightPadded(out[1].summary_lines, 3)

\* an enrichment reply with fewer than 3 usable lines was padded
SummaryLinesWitness ==
    /\ pc = "done"
    /\ llm /\ enrich[1].summary = "ok"
    /\ out[1].summary_lines[1] # <<>>
    /\ out[1].summary_lines[3] = <<>>

\* the scores _fallback_classify gives the text in hand
InputScores ==
    Scores(input.text, input.title, detect_region(input.text, input.title))

PolicyIndex == CHOOSE c \in 1..Len(_PRIMARY_CATEGORIES) : _PRIMARY_CATEGORIES[c] = Policy

\* C6: the category is one of the 9 labels, for any enrichment reply and
\* for any text on the fallback path, and on the fallback path it is the
\* catch-all label exactly when every score is zero
CategoryInLabels ==
    pc = "done" =>
        /\ out[1].category \in CategorySet
        /\ enrich[1].classify # "ok" =>
               (out[1].category = Other
                    <=> \A c \in 1..Len(_PRIMARY_CATEGORIES) : InputScores[c] = 0)

\* a text with no keyword got the catch-all label on the fallback path
CategoryWitness ==
    /\ pc = "done"
    /\ ~llm
    /\ input.text # <<>>
    /\ out[1].category = Other
    /\ \A c \in 1..Len(_PRIMARY_CATEGORIES) : InputScores[c] = 0

\* C9: in _fallback_classify, when several labels hold the maximum positive
\* score and the policy label is one of them, another label is returned; the
\* policy label is returned only when it alone holds the maximum
PolicyLosesTies ==
    (pc = "done" /\ enrich[1].classify # "ok") =>
        LET m == MaxOf({InputScores[c] : c \in 1..Len(_PRIMARY_CATEGORIES)})
            others == {c \in 1..Len(_PRIMARY_CATEGORIES) :
                          c # PolicyIndex /\ InputScores[c] = m}
        IN  /\ (m > 0 /\ InputScores[PolicyIndex] = m /\ others # {})
                   => out[1].category # Policy
            /\ out[1].category = Policy
                   => (m > 0 /\ InputScores[PolicyIndex] = m /\ others = {})

\* the policy label and another label both scored the maximum, 4, and the
\* other label was returned
PolicyLosesTiesWitness ==
    /\ pc = "done"
    /\ ~llm
    /\ InputScores[PolicyIndex] = 4
    /\ \E c \in 1..Len(_PRIMARY_CATEGORIES) :
           /\ c # PolicyIndex /\ InputScores[c] = 4
           /\ out[1].category = _PRIMARY_CATEGORIES[c]

----------------------------------------------------------------------------
(* The claims about the strategies of _load_input (checked under SpecLoad). *)

\* the positions of the pieces that are not blanks
Documents == SelectSeq([k \in 1..Len(parts.members) |-> k],
                       LAMBDA k : Piece(k).kind # "blank")

\* a newline lies between the pieces at positions a and b
NewlineBetween(a, b) == \E k \in (a + 1)..(b - 1) : Piece(k).text = <<"\n">>

\* the trimmed text begins with "{" and holds a newline
JsonLinesEntered ==
    /\ Documents # <<>>
    /\ Piece(Documents[1]).kind \in {"object", "wrapper"}
    /\ NewlineBetween(Documents[1], Documents[Len(Documents)])

\* every non-blank line is one JSON object
EveryLineAnObject ==
    /\ \A d \in 1..Len(Documents) : Piece(Documents[d]).kind \in {"object", "wrapper"}
    /\ \A d \in 1..(Len(Documents) - 1) : NewlineBetween(Documents[d], Documents[d + 1])

\* what one document gives when the whole text is parsed: a wrapper gives
\* the objects of its list
ItemsOfDocument(p) ==
    IF p.kind = "wrapper" THEN Dicts(p.val.kv[1][2].xs) ELSE ObjectsOf(p)

\* the result of the strategies other than JSON Lines on the whole text
WholeTextItems ==
    LET items == Concat([k \in 1..Len(parts.members) |-> ItemsOfDocument(Piece(k))])
    IN  IF (\E k \in 1..Len(parts.members) : Piece(k).kind = "junk") \/ items = <<>>
        THEN <<PlainTextItem(Strip(input))>>
        ELSE items

\* C11: JSON Lines mode is entered only for a trimmed text that begins with
\* "{" and holds a newline; when every non-blank line is a JSON object the
\* result is those objects in line order; otherwise the mode is abandoned
\* and the result is that of the other strategies on the whole text
JsonLinesMode ==
    (pc = "normalize" /\ Strip(input) # <<>>) =>
        IF JsonLinesEntered /\ EveryLineAnObject
        THEN raw_items = [d \in 1..Len(Documents) |-> Piece(Documents[d]).val]
        ELSE raw_items = WholeTextItems

\* an object with a container key and a plain object on two lines came out
\* as those two objects, the container not expanded
JsonLinesWitness ==
    /\ pc = "normalize"
    /\ Len(parts.members) = 3
    /\ Piece(1).kind = "wrapper" /\ Piece(2).text = <<"\n">> /\ Piece(3).kind = "object"
    /\ raw_items = <<Piece(1).val, Piece(3).val>>

\* the single-document parse and the scan both fail: some piece is no JSON
BothParsesFail == \E k \in 1..Len(parts.members) : Piece(k).kind = "junk"

\* C12: _load_input raises no parse error; when the single-document parse
\* and the scan both fail, also after some values were decoded, the result
\* is one record with an empty title and the whole trimmed text as body,
\* and none of the values decoded before the failure
ParseFailureGivesPlainText ==
    (pc = "normalize" /\ BothParsesFail) =>
        /\ Len(raw_items) = 1
        /\ DictGet(raw_items[1], Key_title) = JStr(<<>>)
        /\ DictGet(raw_items[1], Key_text) = JStr(Strip(input))
        /\ \A k \in 1..Len(parts.members) :
               \A j \in 1..Len(ItemsOfDocument(Piece(k))) :
                   raw_items[1] # ItemsOfDocument(Piece(k))[j]

\* an object and an array of objects were decoded before the scan failed in
\* the middle of a value, and the result is the plain-text record
ParseFailureWitness ==
    /\ pc = "normalize"
    /\ Len(parts.members) = 3
    /\ Piece(1).kind = "object"
    /\ Piece(2).kind = "array" /\ ObjectsOf(Piece(2)) # <<>>
    /\ Piece(3).text = <<"{", "\"", "a", "\"">>
    /\ raw_items = <<PlainTextItem(Strip(input))>>

\* the scan fails at a "]" that is followed by "[", directly or after one
\* space: well-formed documents, then a stray "]", then an array
FailsAtArrayBoundary ==
    \E b \in 1..Len(parts.members) :
        /\ Piece(b).text = <<"]">>
        /\ \A k \in 1..(b - 1) : Piece(k).kind \in {"array", "object", "wrapper", "blank"}
        /\ \/ Len(parts.members) = b + 1 /\ Piece(b + 1).kind = "array"
           \/ /\ Len(parts.members) = b + 2
              /\ Piece(b + 1).text = <<" ">> /\ Piece(b + 2).kind = "array"

\* C13 (as stated): when the scan fails at "]" followed by "[", directly or
\* after one space, the comma put at the boundary lets the scan go on, and
\* _parse_multiple_json_values returns the values on both sides of the
\* boundary and does not raise
CommaRepairRecovers ==
    (pc = "normalize" /\ FailsAtArrayBoundary) =>
        LET r == _parse_multiple_json_values(Strip(input))
        IN  /\ r.ok
            /\ r.values = LET docs == SelectSeq(Documents,
                                                LAMBDA k : Piece(k).kind # "junk")
                           IN  [d \in 1..Len(docs) |-> Piece(docs[d]).val]

----------------------------------------------------------------------------
(* llm_client.py: json_chat, request by request, under Processor.summarize  *)
(* and Processor.classify for one item.  A request ends with a reply text   *)
(* or with an error of the transport (_chat raises).                        *)

\* a mutation of the loop of json_chat: one more attempt
Attempts_one_more == 2 + 1

\* for _ in range(2)
Attempts == 2

\* txt.rfind(c), 0 if c is not in txt
RFindChar(s, c) ==
    IF \E j \in 1..Len(s) : s[j] = c
    THEN CHOOSE j \in 1..Len(s) : s[j] = c /\ \A k \in (j + 1)..Len(s) : s[k] # c
    ELSE 0

\* l.62-65: the text from the first "{" to the last "}", if there is one
ExtractJson(txt) ==
    LET Between(start, end) ==
            IF start # 0 /\ end # 0 /\ end >= start THEN SubSeq(txt, start, end)
            ELSE txt
    IN  Between(FindChar(txt, "{", 1), RFindChar(txt, "}"))

\* l.60-66: json.loads of the extracted text: [ok, val, j]
ReplyJson(txt) == json_loads(ExtractJson(txt))

ChatReplies ==
    <<
      [text |-> <<"{", "\"", "s", "u", "m", "m", "a", "r", "y", "_", "l", "i", "n", "e", "s", "\"", ":", "[", "\"", "bu", "san", " ", "chug", "je", ".", "\"", "]", "}">>, parses |-> TRUE,
       val |-> JDict(<<<<<<"s", "u", "m", "m", "a", "r", "y", "_", "l", "i", "n", "e", "s">>, JList(<<JStr(<<"bu", "san", " ", "chug", "je", ".">>)>>)>>>>)],
      [text |-> <<"o", "k", " ", "{", "\"", "p", "r", "i", "m", "a", "r", "y", "\"", ":", "\"", "sa", "hoe", "\"", ",", "\"", "s", "u", "b", "c", "a", "t", "e", "g", "o", "r", "i", "e", "s", "\"", ":", "[", "\"", "haeng", "sa", "\"", "]", "}", " ", ".">>, parses |-> TRUE,
       val |-> JDict(<<<<<<"p", "r", "i", "m", "a", "r", "y">>, JStr(<<"sa", "hoe">>)>>, <<<<"s", "u", "b", "c", "a", "t", "e", "g", "o", "r", "i", "e", "s">>, JList(<<JStr(<<"haeng", "sa">>)>>)>>>>)],
      [text |-> <<"[", "1", "]">>, parses |-> TRUE,
       val |-> JList(<<JNum(1)>>)],
      [text |-> <<"n", "u", "l", "l">>, parses |-> TRUE,
       val |-> JNull],
      [text |-> <<"n", "o", "n", "e">>, parses |-> FALSE,
       val |-> JNull],
      [text |-> <<"}", "{">>, parses |-> FALSE,
       val |-> JNull],
      [text |-> <<"{", "\"", "a", "\"", ":", "1", "}", "}">>, parses |-> FALSE,
       val |-> JNull]
    >>

\* the outcomes of one request: 0 is an error of the transport, r >= 1 the
\* reply ChatReplies[r]
RequestOutcomes == 0..Len(ChatReplies)

\* l.59-69: the attempt succeeds
AttemptSucceeds(r) == r # 0 /\ ReplyJson(ChatReplies[r].text).ok

ChatItems ==
    {[text |-> <<>>, title |-> <<>>],
     [text |-> <<>>, title |-> <<"jeong", "bu", " ", "bal", "pyo">>],
     [text |-> ClassifyPieces[4], title |-> <<>>],
     [text |-> ClassifyPieces[1] \o ClassifyPieces[2],
      title |-> <<"jeong", "bu", " ", "bal", "pyo">>]}

InitChat ==
    /\ pc = "chat_summary"
    /\ input \in ChatItems
    /\ llm \in BOOLEAN
    /\ cur = [attempt |-> 0]
    /\ enrich = <<>>
    /\ results = <<>> /\ out = <<>>
    /\ parts = <<>> /\ raw_items = <<>> /\ norm_items = <<>>

\* whether the Processor calls json_chat
ChatCalls(call) ==
    IF call = "chat_summary" THEN SummarizeCalls(input.text, llm)
    ELSE ClassifyCalls(input.text, input.title, llm)

\* the rest of summarize or classify once json_chat has returned or raised,
\* and main up to the record of the item
AfterChat(call, o) ==
    IF call = "chat_summary"
    THEN /\ results' = <<Take(summarize(input.text, input.title, llm, o), 3)>>
         /\ pc' = "chat_classify"
         /\ out' = out
    ELSE /\ out' = <<[summary_lines |-> results[1],
                      category |-> classify(input.text, input.title, llm, o).primary,
                      subcategories |->
                          pipeline_pad4(classify(input.text, input.title, llm, o).subs)]>>
         /\ pc' = "done"
         /\ results' = results

\* history: one more request of this call
Requested(call, r) ==
    enrich' = Append(enrich, [call |-> call, attempt |-> cur.attempt + 1, reply |-> r])

\* summarize or classify without a client, or on an empty text
NoChat(call) ==
    /\ pc = call /\ ~ChatCalls(call)
    /\ AfterChat(call, Raised)
    /\ UNCHANGED <<input, parts, llm, raw_items, norm_items, cur, enrich>>

\* an attempt whose reply loads as JSON: json_chat returns it
ChatReturns(call) ==
    /\ pc = call /\ ChatCalls(call) /\ cur.attempt < Attempts
    /\ \E r \in RequestOutcomes :
          /\ AttemptSucceeds(r)
          /\ Requested(call, r)
          /\ AfterChat(call, Returned(ReplyJson(ChatReplies[r].text).val))
    /\ cur' = [attempt |-> 0]
    /\ UNCHANGED <<input, parts, llm, raw_items, norm_items>>

\* a failed attempt that is not the last: sleep and try again
ChatRetries(call) ==
    /\ pc = call /\ ChatCalls(call) /\ cur.attempt + 1 < Attempts
    /\ \E r \in RequestOutcomes : ~AttemptSucceeds(r) /\ Requested(call, r)
    /\ cur' = [attempt |-> cur.attempt + 1]
    /\ UNCHANGED <<pc, input, out, parts, llm, raw_items, norm_items, results>>

\* the last attempt fails: json_chat raises, the Processor falls back
ChatRaises(call) ==
    /\ pc = call /\ ChatCalls(call) /\ cur.attempt + 1 = Attempts
    /\ \E r \in RequestOutcomes : ~AttemptSucceeds(r) /\ Requested(call, r)
    /\ AfterChat(call, Raised)
    /\ cur' = [attempt |-> 0]
    /\ UNCHANGED <<input, parts, llm, raw_items, norm_items>>

NextChat ==
    \E call \in {"chat_summary", "chat_classify"} :
        NoChat(call) \/ ChatReturns(call) \/ ChatRetries(call) \/ ChatRaises(call)

SpecChat == InitChat /\ [][NextChat]_vars

----------------------------------------------------------------------------
(* The claim about the requests of one item (checked under SpecChat). *)

\* the positions in the history of the requests of a call
RequestsOf(call) == {k \in 1..Len(enrich) : enrich[k].call = call}

\* the reply of request k loads as JSON once the text between the first "{"
\* and the last "}" is taken (as json_chat itself answers on that reply)
ReplyParses(k) == enrich[k].reply # 0 /\ ChatReplies[enrich[k].reply].parses

\* the call is over
ChatOver(call) == pc = "done" \/ (call = "chat_summary" /\ pc = "chat_classify")

\* what the Processor gives with this outcome of json_chat
ResultWith(call, o) ==
    IF call = "chat_summary"
    THEN results = <<Take(summarize(input.text, input.title, llm, o), 3)>>
    ELSE /\ out[1].category = classify(input.text, input.title, llm, o).primary
         /\ out[1].subcategories =
                pipeline_pad4(classify(input.text, input.title, llm, o).subs)

\* C14: a json_chat call issues at most 2 requests, returns at the first
\* reply that loads as JSON after the extraction, and raises only after 2
\* failed attempts; the Processor calls json_chat at most once for the
\* summary and once for the classification, so an item causes at most 4
\* requests
RequestsBounded ==
    /\ Len(enrich) <= 4
    /\ \A call \in {"chat_summary", "chat_classify"} :
          /\ Cardinality(RequestsOf(call)) <= 2
          /\ \A k \in RequestsOf(call) :
                 /\ enrich[k].attempt = Cardinality({j \in RequestsOf(call) : j <= k})
                 /\ ReplyParses(k) =>
                        /\ \A j \in RequestsOf(call) : j <= k
                        /\ ChatOver(call)
                        /\ ResultWith(call, Returned(ChatReplies[enrich[k].reply].val))
          /\ (ChatOver(call) /\ \A k \in RequestsOf(call) : ~ReplyParses(k)) =>
                 /\ Cardinality(RequestsOf(call)) = IF ChatCalls(call) THEN 2 ELSE 0
                 /\ ResultWith(call, Raised)

\* an item that took 4 requests: two failed ones for the summary, then a
\* failed one and a reply with text around the JSON for the classification
RequestsWitness ==
    /\ pc = "done"
    /\ Len(enrich) = 4
    /\ ~ReplyParses(1) /\ ~ReplyParses(2) /\ ~ReplyParses(3) /\ ReplyParses(4)
    /\ enrich[4].reply = 2
    /\ out[1].category = Society

----------------------------------------------------------------------------
(* _load_input on one top-level object: the container keys and the          *)
(* recursive search.  The object is built from one or two keys and the      *)
(* lists under them, and the text given to the loader is its JSON text.     *)

\* number of members of the lists of the top-level object, all together
MaxMembers == 2

\* the JSON text of a value without blanks (strings here hold no quote and
\* no backslash)
RECURSIVE Dumps(_)
Dumps(v) ==
    CASE v.ty = "str" -> <<"\"">> \o v.s \o <<"\"">>
      [] v.ty = "num" -> NatText(v.n)
      [] v.ty = "list" ->
            <<"[">> \o JoinWith([k \in 1..Len(v.xs) |-> Dumps(v.xs[k])], <<",">>) \o <<"]">>
      [] v.ty = "dict" ->
            <<"{">> \o JoinWith([k \in 1..Len(v.kv) |->
                                    <<"\"">> \o v.kv[k][1] \o <<"\"", ":">>
                                        \o Dumps(v.kv[k][2])], <<",">>) \o <<"}">>

TextQ == JDict(<< <<Key_text, JStr(<<"q">>)>> >>)
TextEmpty == JDict(<< <<Key_text, JStr(<<>>)>> >>)
NoText == JDict(<< <<<<"a">>, JNum(1)>> >>)

\* the members the lists are made of: objects with a body, with an empty
\* body, without a body, an object that holds a list of objects, and lists
\* of objects
MemberPool ==
    << TextQ, TextEmpty, NoText,
       JDict(<< <<<<"k">>, JList(<<TextQ>>)>> >>),
       JList(<<TextQ>>),
       JList(<<TextEmpty>>) >>

\* two container keys and a key that is none
ObjectKeys == << _CAND_LIST_KEYS[1], _CAND_LIST_KEYS[2], <<"k">> >>

ListOf(ms) == JList([k \in 1..Len(ms) |-> MemberPool[ms[k]]])

\* the top-level objects: one key, or two different keys, each with a list
ExtractInputs ==
    {JDict(<< <<ObjectKeys[a], ListOf(ms)>> >>) :
        a \in 1..Len(ObjectKeys), ms \in SeqsUpTo(1..Len(MemberPool), MaxMembers)}
    \cup
    {JDict(<< <<ObjectKeys[ab[1]], ListOf(ms[1])>>, <<ObjectKeys[ab[2]], ListOf(ms[2])>> >>) :
        ab \in {p \in (1..Len(ObjectKeys)) \X (1..Len(ObjectKeys)) : p[1] # p[2]},
        ms \in {q \in SeqsUpTo(1..Len(MemberPool), MaxMembers)
                      \X SeqsUpTo(1..Len(MemberPool), MaxMembers) :
                    Len(q[1]) + Len(q[2]) <= MaxMembers}}

InitExtract ==
    /\ pc = "load"
    /\ parts \in {[kind |-> "object", val |-> v] : v \in ExtractInputs}
    /\ input = Dumps(parts.val)
    /\ out = <<>>
    /\ IdleMain

SpecExtract == InitExtract /\ [][NextLoad]_vars

----------------------------------------------------------------------------
(* The claims about the container keys and the recursive search (checked    *)
(* under SpecExtract).                                                      *)

\* record-like: some body key holds a non-empty string
RecordLike(d) ==
    /\ d.ty = "dict"
    /\ \E k \in 1..Len(_TEXT_KEYS) :
           /\ HasKey(d, _TEXT_KEYS[k])
           /\ DictGet(d, _TEXT_KEYS[k]).ty = "str"
           /\ DictGet(d, _TEXT_KEYS[k]).s # <<>>

\* the record-like objects in the lists nested in a value
RECURSIVE RecordLikeIn(_)
RecordLikeIn(v) ==
    IF v.ty = "list"
    THEN {v.xs[k] : k \in {j \in 1..Len(v.xs) : RecordLike(v.xs[j])}}
             \cup UNION {RecordLikeIn(v.xs[k]) : k \in 1..Len(v.xs)}
    ELSE IF v.ty = "dict"
    THEN UNION {RecordLikeIn(v.kv[k][2]) : k \in 1..Len(v.kv)}
    ELSE {}

\* the list under the first container key of the top-level object that
\* holds a list
FirstContainerList == DictGet(parts.val, _CAND_LIST_KEYS[FirstListKey(parts.val)])

\* C15 (as stated): an object is record-like only when a body key holds a
\* non-empty string; when the list under the first list-valued container
\* key of the top-level object holds no record-like element, its elements
\* are not emitted as records, and the records are the record-like objects
\* found by the search of the nested lists
ContainerListScreened ==
    ( /\ pc = "normalize"
      /\ FirstListKey(parts.val) # 0
      /\ \A k \in 1..Len(FirstContainerList.xs) : ~RecordLike(FirstContainerList.xs[k]) )
    => /\ \A j \in 1..Len(raw_items) : \A k \in 1..Len(FirstContainerList.xs) :
              raw_items[j] # FirstContainerList.xs[k]
       /\ \A d \in RecordLikeIn(FirstContainerList) :
              \E j \in 1..Len(raw_items) : raw_items[j] = d
       /\ \A j \in 1..Len(raw_items) :
              \/ RecordLike(raw_items[j])
              \/ raw_items = <<PlainTextItem(Strip(input))>>
              \/ raw_items = <<parts.val>>

\* sum of f[1..k]
RECURSIVE SumTo(_, _)
SumTo(f, k) == IF k = 0 THEN 0 ELSE f[k] + SumTo(f, k - 1)

\* number of occurrences of the object d in the value v, v itself included
RECURSIVE Occurrences(_, _)
Occurrences(v, d) ==
    (IF v = d THEN 1 ELSE 0)
    + (IF v.ty = "list"
       THEN SumTo([k \in 1..Len(v.xs) |-> Occurrences(v.xs[k], d)], Len(v.xs))
       ELSE IF v.ty = "dict"
       THEN SumTo([k \in 1..Len(v.kv) |-> Occurrences(v.kv[k][2], d)], Len(v.kv))
       ELSE 0)

\* number of records of raw_items equal to d
Emitted(d) == Cardinality({j \in 1..Len(raw_items) : raw_items[j] = d})

\* C19: each record _load_input returns for a parsed input stands for an
\* occurrence of its own of an object of the input: no object is emitted
\* more often than it occurs, also when the recursive search reaches a list
\* both through a container key and through the values of the object.
NoObjectEmittedTwice ==
    (pc = "normalize" /\ raw_items # <<PlainTextItem(Strip(input))>>) =>
        \A j \in 1..Len(raw_items) :
            Emitted(raw_items[j]) <= Occurrences(parts.val, raw_items[j])

----------------------------------------------------------------------------
(* _normalize_items on one record whose title and body aliases are absent, *)
(* hold an empty string, hold a string, or hold a number.                  *)

\* the aliases the records carry: title, headline, contents, text
RecordKeys == <<_TITLE_KEYS[1], _TITLE_KEYS[2], _TEXT_KEYS[1], _TEXT_KEYS[3]>>

\* what a key of a record holds: 1 absent, 2 "", 3 its own name, 4 a number
RecordValue(key, c) ==
    IF c = 2 THEN JStr(<<>>) ELSE IF c = 3 THEN JStr(key) ELSE JNum(1)

RECURSIVE RecordPairs(_, _)
RecordPairs(f, k) ==
    IF k > Len(RecordKeys) THEN <<>>
    ELSE (IF f[k] = 1 THEN <<>> ELSE <<<<RecordKeys[k], RecordValue(RecordKeys[k], f[k])>>>>)
         \o RecordPairs(f, k + 1)

RecordInputs == {JDict(RecordPairs(f, 1)) : f \in [1..Len(RecordKeys) -> 1..4]}

InitNormalize ==
    /\ pc = "normalize"
    /\ raw_items \in {<<r>> : r \in RecordInputs}
    /\ input = <<>> /\ out = <<>> /\ parts = <<>>
    /\ llm = FALSE
    /\ norm_items = <<>> /\ cur = <<>>
    /\ results = <<>> /\ enrich = <<>>

NextNormalize == NormalizeItems

SpecNormalize == InitNormalize /\ [][NextNormalize]_vars

\* the value of the first of keys that it holds with a string that is not
\* empty, else ""
FirstNonEmptyStr(it, keys) ==
    LET hits == {k \in 1..Len(keys) :
                    /\ HasKey(it, keys[k])
                    /\ DictGet(it, keys[k]).ty = "str"
                    /\ DictGet(it, keys[k]).s # <<>>}
    IN  IF hits = {} THEN <<>>
        ELSE DictGet(it, keys[CHOOSE k \in hits : \A h \in hits : k <= h]).s

\* C16: once the records are normalised, the title of each is the first
\* string that is not empty among the title aliases of the input record and
\* its contents the first string that is not empty among the body aliases
\* (an alias holding "" does not stop the search), "" when there is none,
\* and the input records are as they were.
NormalizeTakesFirstNonEmpty ==
    pc = "build" =>
        /\ Len(norm_items) = Len(raw_items)
        /\ \A k \in 1..Len(raw_items) :
              /\ norm_items[k].title = FirstNonEmptyStr(raw_items[k], _TITLE_KEYS)
              /\ norm_items[k].contents = FirstNonEmptyStr(raw_items[k], _TEXT_KEYS)
        /\ \E r \in RecordInputs : raw_items = <<r>>

----------------------------------------------------------------------------
(* The label a classification returns against the label the reply held. *)

\* the label classify hands to _debias_primary
ReturnedPrimary == _normalize_primary(DictGet(OrEmptyDict(parts.reply.js), Key_primary))

\* title + " " + text in lower case, as _debias_primary searches it
DebiasText == Lower(input.title \o <<" ">> \o input.text)

\* one of the finance, trade, R&D, employment or industrial-safety rules fires
StrongKeyword ==
    \E k \in 1..5 : Fires(DebiasRules[k], DebiasText, detect_region(input.text, input.title))

\* a region other than the nationwide one together with an event keyword
RegionAndEvent ==
    Fires(DebiasRules[6], DebiasText, detect_region(input.text, input.title))

\* C17: on the enrichment path the label of the result differs from the
\* label of the reply only when that label is the policy label and a strong
\* keyword is present, or when a region other than the nationwide one comes
\* with an event keyword, and then the result is the society label; a label
\* other than the policy label without region and event is left as it is.
DebiasOnlyPolicyOrRegionEvent ==
    (pc = "done" /\ enrich[1].classify = "ok") =>
        /\ out[1].category # ReturnedPrimary =>
              \/ ReturnedPrimary = Policy /\ StrongKeyword
              \/ RegionAndEvent /\ out[1].category = Society
        /\ (ReturnedPrimary # Policy /\ ~RegionAndEvent) =>
              out[1].category = ReturnedPrimary

----------------------------------------------------------------------------
(* The loop of _parse_multiple_json_values, one iteration a step.  input  *)
(* is the local text, cur.i the cursor (1-based), out the values decoded  *)
(* so far; parts.repaired keeps the cursors the repair was applied at.    *)
(* The loop ends with pc "returned" or, when the error leaves the         *)
(* function, "raised".                                                    *)

\* number of pieces the scanned text is concatenated from
MaxScanPieces == 3

ScanPieces ==
    <<
      <<"[", "1", "]">>,
      <<"{", "}">>,
      <<"]">>,
      <<"]", " ", "[">>,
      <<"[">>,
      <<" ">>,
      <<"x">>
    >>

ScanInputs ==
    {PiecesOf(ScanPieces, ks) : ks \in SeqsUpTo(1..Len(ScanPieces), MaxScanPieces)}

InitScan ==
    /\ pc = "scan"
    /\ input \in ScanInputs
    /\ cur = [i |-> 1]
    /\ out = <<>>
    /\ parts = [repaired |-> {}]
    /\ llm = FALSE
    /\ raw_items = <<>> /\ norm_items = <<>>
    /\ results = <<>> /\ enrich = <<>>

\* the cursor once the blanks are skipped
Cursor == SkipSpace(input, cur.i)

\* if i >= n: break; return values
ScanReturns ==
    /\ pc = "scan"
    /\ Cursor > Len(input)
    /\ pc' = "returned"
    /\ UNCHANGED <<input, out, parts, llm, raw_items, norm_items, cur, results, enrich>>

\* val, j = dec.raw_decode(text, i); values.append(val); i = j
ScanDecodes ==
    /\ pc = "scan"
    /\ Cursor <= Len(input)
    /\ ParseValue(input, Cursor).ok
    /\ out' = Append(out, ParseValue(input, Cursor).val)
    /\ cur' = [i |-> ParseValue(input, Cursor).j]
    /\ UNCHANGED <<pc, input, parts, llm, raw_items, norm_items, results, enrich>>

\* except: the comma is put in and the iteration starts again
ScanRepairs ==
    /\ pc = "scan"
    /\ Cursor <= Len(input)
    /\ ~ParseValue(input, Cursor).ok
    /\ AdjacentArrays(input, Cursor)
    /\ input' = InjectComma(input, Cursor)
    /\ cur' = [i |-> Cursor]
    /\ parts' = [repaired |-> parts.repaired \cup {Cursor}]
    /\ UNCHANGED <<pc, out, llm, raw_items, norm_items, results, enrich>>

\* except: raise
ScanRaises ==
    /\ pc = "scan"
    /\ Cursor <= Len(input)
    /\ ~ParseValue(input, Cursor).ok
    /\ ~AdjacentArrays(input, Cursor)
    /\ pc' = "raised"
    /\ UNCHANGED <<input, out, parts, llm, raw_items, norm_items, cur, results, enrich>>

NextScan ==
    \/ ScanReturns
    \/ ScanDecodes
    \/ ScanRepairs
    \/ ScanRaises

\* the loop runs on as long as it has not ended
SpecScan == InitScan /\ [][NextScan]_vars /\ WF_vars(NextScan)

\* an iteration that leaves the loop running has moved the cursor on by at
\* least one character, or has put a comma at a cursor where none was put
\* before
ScanProgress ==
    (pc = "scan" /\ pc' = "scan") =>
        \/ cur'.i > cur.i /\ input' = input
        \/ /\ input' # input
           /\ cur'.i \notin parts.repaired
           /\ cur'.i \in parts'.repaired

\* C18: the loop of _parse_multiple_json_values ends on every text: each
\* iteration moves the cursor on, applies the repair at a cursor it was not
\* applied at before, or ends the loop by returning or raising.
ScanTerminates ==
    /\ [][ScanProgress]_vars
    /\ <>(pc \in {"returned", "raised"})

\* a text on which a value was decoded, the repair was applied and the loop
\* has ended
ScanWitness ==
    /\ pc \in {"returned", "raised"}
    /\ parts.repaired # {}
    /\ out # <<>>

----------------------------------------------------------------------------
(* The subcategories once short lists are topped up (checked under         *)
(* SpecClassify).                                                          *)

\* the subcategories of the reply as classify normalises them, before the
\* top-up
ReplySubs ==
    _normalize_subs(Strings(IterItems(
        GetOrEmptyList(OrEmptyDict(parts.reply.js), Key_subcategories))))

\* C20: after classify, on the enrichment path and on the fallback path,
\* the four subcategories are all non-empty and no two of them are equal:
\* the top-up from _suggest_subs_from_text leaves no padding entry.
SubcategoriesAllFilled ==
    pc = "done" =>
        /\ Len(out[1].subcategories) = 4
        /\ \A i \in 1..4 : out[1].subcategories[i] # <<>>
        /\ \A i, j \in 1..4 : i # j => out[1].subcategories[i] # out[1].subcategories[j]

\* an enrichment reply with fewer than 4 usable subcategories was topped up
SubcategoriesFilledWitness ==
    /\ pc = "done"
    /\ enrich[1].classify = "ok"
    /\ CountEmpty(ReplySubs) > 0
    /\ \A i \in 1..4 : out[1].subcategories[i] # <<>>

=============================================================================
